---- MODULE Spec2Model ----
(***************************************************************************)
(* A state-machine model of the LCD1602 (HD44780) driver: the display      *)
(* state shadow (src/src/state.rs), the facade over it (src/src/lcd.rs,    *)
(* with the older revision src/src/impl_lcd_api.rs), the command encoder   *)
(* (src/src/command.rs) and the generic sender helpers (src/src/sender.rs).*)
(* The commands the driver puts on the wire drive a reference HD44780      *)
(* controller, so that the shadow can be compared with the hardware.       *)
(***************************************************************************)
EXTENDS Integers, Sequences, FiniteSets, TLC

VARIABLES
    rev,        \* which revision of the facade is running: "lcd" or "impl_lcd_api"
    phase,      \* "config": LcdState/Config being set up; "ready": Lcd constructed
    state,      \* Lcd.state : LcdState
    wire,       \* what the last facade call did to the sender and the delayer,
                \* in order: commands sent, delays, backlight pushes
    hw,         \* the reference HD44780 controller driven by every command sent
    fatal,      \* a panic!/assert! has fired: the program has stopped
    last,       \* the last facade call: its name, arguments and the state before it
    nops,       \* number of facade calls made since construction
    calc,       \* calculate_pos_by_offset applied as a pure function
    i2c,        \* an I2cSender on its own: its flag, the bus traffic, its last send
    run,        \* a call followed step by step: where it stands in its loop
    poll        \* Lcd.poll_interval_us : the wait between two busy-flag polls

vars == <<rev, phase, state, wire, hw, fatal, last, nops, calc, i2c, run, poll>>

(***************************************************************************)
(* Bounds of the model                                                     *)
(***************************************************************************)
\* facade calls explored after construction
MaxOps == 2
\* commands handed to one I2cSender
MaxSends == 3
\* calls of an animation routine explored after construction
MaxShifts == 2
\* rounds of an endless loop that are followed
MaxRounds == 4
\* busy-flag reads answered busy that are followed in one wait_and_send
MaxPolls == 3

(***************************************************************************)
(* utils.rs: BitOps for u8                                                 *)
(***************************************************************************)
Pow2(n) == 2 ^ n

\* what a function gives when its assertion fails
Panicked == "panic"

\* each begins with assert!(pos <= 7, "bit offset larger than 7")
check_bit(b, pos) == IF ~(pos <= 7) THEN Panicked ELSE ((b \div Pow2(pos)) % 2) = 1

set_bit(b, pos) ==
    IF ~(pos <= 7) THEN Panicked ELSE IF check_bit(b, pos) THEN b ELSE b + Pow2(pos)

clear_bit(b, pos) ==
    IF ~(pos <= 7) THEN Panicked ELSE IF check_bit(b, pos) THEN b - Pow2(pos) ELSE b

(***************************************************************************)
(* command.rs: the enums, written as strings                               *)
(***************************************************************************)
MoveDirections == {"RightToLeft", "LeftToRight"}
ShiftTypes == {"CursorOnly", "CursorAndDisplay"}
States == {"Off", "On"}
DataWidths == {"Bit4", "Bit8"}
LineModes == {"OneLine", "TwoLine"}
Fonts == {"Font5x8", "Font5x11"}
RAMTypes == {"DDRam", "CGRam"}

\* Command::new: the wire-level command {rs, rw, data: Option<Bits>};
\* bits = 0 stands for data = None.  A write without data panics.
Command(rs, rw, bits, data) ==
    IF rw = "Write" /\ bits = 0 THEN Panicked
    ELSE [rs |-> rs, rw |-> rw, bits |-> bits, data |-> data]

\* the logical instructions (enum CommandSet)
ClearDisplay == [op |-> "ClearDisplay"]
ReturnHome == [op |-> "ReturnHome"]
EntryModeSet(dir, st) == [op |-> "EntryModeSet", dir |-> dir, st |-> st]
DisplayOnOff(display, cursor, cursor_blink) ==
    [op |-> "DisplayOnOff", display |-> display, cursor |-> cursor,
     cursor_blink |-> cursor_blink]
CursorOrDisplayShift(st, dir) == [op |-> "CursorOrDisplayShift", st |-> st, dir |-> dir]
HalfFunctionSet == [op |-> "HalfFunctionSet"]
FunctionSet(width, line, font) ==
    [op |-> "FunctionSet", width |-> width, line |-> line, font |-> font]
SetCGRAM(addr) == [op |-> "SetCGRAM", addr |-> addr]
SetDDRAM(addr) == [op |-> "SetDDRAM", addr |-> addr]
ReadBusyFlagAndAddress == [op |-> "ReadBusyFlagAndAddress"]
WriteDataToRAM(data) == [op |-> "WriteDataToRAM", data |-> data]
ReadDataFromRAM == [op |-> "ReadDataFromRAM"]

\* the encoder's assertions: SetCGRAM addr < 2^6, SetDDRAM addr < 2^7
EncodeOk(cs) ==
    CASE cs.op = "SetCGRAM" -> cs.addr < Pow2(6)
      [] cs.op = "SetDDRAM" -> cs.addr < Pow2(7)
      [] OTHER -> TRUE

\* a plausible slip: in EntryModeSet the direction and shift bits change places
Encode_mut(cs) ==
    CASE cs.op = "ClearDisplay" -> Command("Command", "Write", 8, 1)
      [] cs.op = "ReturnHome" -> Command("Command", "Write", 8, 2)
      [] cs.op = "EntryModeSet" ->
            LET b0 == 4
                b1 == IF cs.dir = "RightToLeft" THEN clear_bit(b0, 0) ELSE set_bit(b0, 0)
                b2 == IF cs.st = "CursorOnly" THEN clear_bit(b1, 1) ELSE set_bit(b1, 1)
            IN  Command("Command", "Write", 8, b2)
      [] cs.op = "DisplayOnOff" ->
            LET b0 == 8
                b1 == IF cs.display = "Off" THEN clear_bit(b0, 2) ELSE set_bit(b0, 2)
                b2 == IF cs.cursor = "Off" THEN clear_bit(b1, 1) ELSE set_bit(b1, 1)
                b3 == IF cs.cursor_blink = "Off" THEN clear_bit(b2, 0) ELSE set_bit(b2, 0)
            IN  Command("Command", "Write", 8, b3)
      [] cs.op = "CursorOrDisplayShift" ->
            LET b0 == 16
                b1 == IF cs.st = "CursorOnly" THEN clear_bit(b0, 3) ELSE set_bit(b0, 3)
                b2 == IF cs.dir = "RightToLeft" THEN clear_bit(b1, 2) ELSE set_bit(b1, 2)
            IN  Command("Command", "Write", 8, b2)
      [] cs.op = "HalfFunctionSet" -> Command("Command", "Write", 4, 2)
      [] cs.op = "FunctionSet" ->
            LET b0 == 32
                b1 == IF cs.width = "Bit4" THEN clear_bit(b0, 4) ELSE set_bit(b0, 4)
                b2 == IF cs.line = "OneLine" THEN clear_bit(b1, 3) ELSE set_bit(b1, 3)
                b3 == IF cs.font = "Font5x8" THEN clear_bit(b2, 2) ELSE set_bit(b2, 2)
            IN  Command("Command", "Write", 8, b3)
      [] cs.op = "SetCGRAM" -> Command("Command", "Write", 8, 64 + cs.addr)
      [] cs.op = "SetDDRAM" -> Command("Command", "Write", 8, 128 + cs.addr)
      [] cs.op = "ReadBusyFlagAndAddress" -> Command("Command", "Read", 0, 0)
      [] cs.op = "WriteDataToRAM" -> Command("Data", "Write", 8, cs.data)
      [] cs.op = "ReadDataFromRAM" -> Command("Data", "Read", 0, 0)

\* impl From<CommandSet> for Command
Encode(cs) ==
    CASE cs.op = "ClearDisplay" -> Command("Command", "Write", 8, 1)
      [] cs.op = "ReturnHome" -> Command("Command", "Write", 8, 2)
      [] cs.op = "EntryModeSet" ->
            LET b0 == 4
                b1 == IF cs.dir = "RightToLeft" THEN clear_bit(b0, 1) ELSE set_bit(b0, 1)
                b2 == IF cs.st = "CursorOnly" THEN clear_bit(b1, 0) ELSE set_bit(b1, 0)
            IN  Command("Command", "Write", 8, b2)
      [] cs.op = "DisplayOnOff" ->
            LET b0 == 8
                b1 == IF cs.display = "Off" THEN clear_bit(b0, 2) ELSE set_bit(b0, 2)
                b2 == IF cs.cursor = "Off" THEN clear_bit(b1, 1) ELSE set_bit(b1, 1)
                b3 == IF cs.cursor_blink = "Off" THEN clear_bit(b2, 0) ELSE set_bit(b2, 0)
            IN  Command("Command", "Write", 8, b3)
      [] cs.op = "CursorOrDisplayShift" ->
            LET b0 == 16
                b1 == IF cs.st = "CursorOnly" THEN clear_bit(b0, 3) ELSE set_bit(b0, 3)
                b2 == IF cs.dir = "RightToLeft" THEN clear_bit(b1, 2) ELSE set_bit(b1, 2)
            IN  Command("Command", "Write", 8, b2)
      [] cs.op = "HalfFunctionSet" -> Command("Command", "Write", 4, 2)
      [] cs.op = "FunctionSet" ->
            LET b0 == 32
                b1 == IF cs.width = "Bit4" THEN clear_bit(b0, 4) ELSE set_bit(b0, 4)
                b2 == IF cs.line = "OneLine" THEN clear_bit(b1, 3) ELSE set_bit(b1, 3)
                b3 == IF cs.font = "Font5x8" THEN clear_bit(b2, 2) ELSE set_bit(b2, 2)
            IN  Command("Command", "Write", 8, b3)
      [] cs.op = "SetCGRAM" -> Command("Command", "Write", 8, 64 + cs.addr)
      [] cs.op = "SetDDRAM" -> Command("Command", "Write", 8, 128 + cs.addr)
      [] cs.op = "ReadBusyFlagAndAddress" -> Command("Command", "Read", 0, 0)
      [] cs.op = "WriteDataToRAM" -> Command("Data", "Write", 8, cs.data)
      [] cs.op = "ReadDataFromRAM" -> Command("Data", "Read", 0, 0)

(***************************************************************************)
(* The reference HD44780 controller (its instruction set): address counter,*)
(* RAM selector, entry mode, display shift and display flags.  ac is the   *)
(* raw address: DDRAM 0x00..0x27 and 0x40..0x67 with two lines, 0x00..0x4F *)
(* with one; shift counts display shifts to the right modulo the capacity. *)
(***************************************************************************)
\* dd is the DDRAM content by address, cg the CGRAM content by address
HwReset ==
    [n |-> 1, ac |-> 0, ram |-> "DDRam", id |-> 1, s |-> 0, shift |-> 0,
     d |-> 0, c |-> 0, b |-> 0,
     dd |-> [a \in 0..127 |-> 32], cg |-> [a \in 0..63 |-> 0]]

HwCapacity(h) == IF h.n = 2 THEN 40 ELSE 80

HwInc(h) ==
    IF h.ram = "CGRam" THEN (h.ac + 1) % 64
    ELSE IF h.n = 2
         THEN IF h.ac = 39 THEN 64 ELSE IF h.ac = 103 THEN 0 ELSE (h.ac + 1) % 128
         ELSE IF h.ac = 79 THEN 0 ELSE (h.ac + 1) % 128

HwDec(h) ==
    IF h.ram = "CGRam" THEN (h.ac + 63) % 64
    ELSE IF h.n = 2
         THEN IF h.ac = 64 THEN 39 ELSE IF h.ac = 0 THEN 103 ELSE (h.ac + 127) % 128
         ELSE IF h.ac = 0 THEN 79 ELSE (h.ac + 127) % 128

HwShiftBy(h, right) ==
    IF right THEN (h.shift + 1) % HwCapacity(h)
    ELSE (h.shift + HwCapacity(h) - 1) % HwCapacity(h)

\* a data-register transfer: the address counter steps per I/D; a DDRAM
\* write with S = 1 also shifts the display (left when incrementing)
HwData(h, isWrite, data) ==
    LET stored == IF ~isWrite THEN h
                  ELSE IF h.ram = "DDRam" THEN [h EXCEPT !.dd[h.ac] = data]
                  ELSE [h EXCEPT !.cg[h.ac] = data]
        stepped == [stored EXCEPT !.ac = IF h.id = 1 THEN HwInc(h) ELSE HwDec(h)]
    IN  IF isWrite /\ h.s = 1 /\ h.ram = "DDRam"
        THEN [stepped EXCEPT !.shift = HwShiftBy(h, h.id = 0)]
        ELSE stepped

HwInstruction(h, data) ==
    IF data >= 128 THEN [h EXCEPT !.ram = "DDRam", !.ac = data - 128]
    ELSE IF data >= 64 THEN [h EXCEPT !.ram = "CGRam", !.ac = data - 64]
    ELSE IF data >= 32 THEN [h EXCEPT !.n = IF check_bit(data, 3) THEN 2 ELSE 1]
    ELSE IF data >= 16 THEN
        IF check_bit(data, 3)
        THEN [h EXCEPT !.shift = HwShiftBy(h, check_bit(data, 2))]
        ELSE [h EXCEPT !.ac = IF check_bit(data, 2) THEN HwInc(h) ELSE HwDec(h)]
    ELSE IF data >= 8 THEN
        [h EXCEPT !.d = IF check_bit(data, 2) THEN 1 ELSE 0,
                  !.c = IF check_bit(data, 1) THEN 1 ELSE 0,
                  !.b = IF check_bit(data, 0) THEN 1 ELSE 0]
    ELSE IF data >= 4 THEN
        [h EXCEPT !.id = IF check_bit(data, 1) THEN 1 ELSE 0,
                  !.s = IF check_bit(data, 0) THEN 1 ELSE 0]
    ELSE IF data >= 2 THEN [h EXCEPT !.ram = "DDRam", !.ac = 0, !.shift = 0]
    ELSE IF data = 1 THEN [h EXCEPT !.ram = "DDRam", !.ac = 0, !.shift = 0, !.id = 1,
                                     !.dd = [a \in 0..127 |-> 32]]
    ELSE h

HwStep(h, cmd) ==
    IF cmd.rs = "Data" THEN HwData(h, cmd.rw = "Write", cmd.data)
    ELSE IF cmd.rw = "Read" THEN h
    ELSE IF cmd.bits = 4 THEN h
    ELSE HwInstruction(h, cmd.data)

(***************************************************************************)
(* The running driver as one value: M = [st, wire, hw, fatal].  Every      *)
(* operation maps M to M; once fatal is set nothing more happens.          *)
(***************************************************************************)
Panic(M) == [M EXCEPT !.fatal = TRUE]

\* the busy-flag poll interval handed to Builder::new / Lcd::new
poll_interval_us == 10

\* the controller's display, cursor and blink flags at the moment an entry is
\* logged
HwFlags(h) == [d |-> h.d, c |-> h.c, b |-> h.b]

\* SendCommand::send, as seen by the controller: the encoded command goes on
\* the wire, tagged with how the sender waited before it
send(M, cs, how, us) ==
    IF M.fatal THEN M
    ELSE IF ~EncodeOk(cs) THEN Panic(M)
    ELSE [M EXCEPT !.wire = Append(@, [cmd |-> Encode(cs), how |-> how, us |-> us,
                                       at |-> HwFlags(M.hw)]),
                   !.hw = HwStep(@, Encode(cs))]

\* what an entry of the log carries when it is not a command
NoCommand == Command("-", "-", 0, 0)

\* Lcd::delay_us: the delayer is asked to wait; nothing is sent.  The older
\* revision does not call the delayer for a wait of 0 (if us > 0 { ... })
Lcd_delay_us(M, rv, us) ==
    IF M.fatal THEN M
    ELSE IF rv = "impl_lcd_api" /\ ~(us > 0) THEN M
    ELSE [M EXCEPT !.wire = Append(@, [cmd |-> NoCommand, how |-> "sleep", us |-> us,
                                       at |-> HwFlags(M.hw)])]

\* SendCommand::set_backlight: the backlight state handed to the transport
sender_set_backlight(M, backlight) ==
    IF M.fatal THEN M
    ELSE [M EXCEPT !.wire = Append(@, [cmd |-> Command("Backlight", backlight, 0, 0),
                                       how |-> "backlight", us |-> 0,
                                       at |-> HwFlags(M.hw)])]

\* SendCommand::delay_and_send
delay_and_send(M, cs, delay_us) == send(M, cs, "delay", delay_us)

\* a plausible slip: bit 6, the top bit of the address, taken for the flag
check_busy_mut(busy_state) == check_bit(busy_state, 6)

\* SendCommand::check_busy, on the byte the busy-flag read returned
check_busy(busy_state) == check_bit(busy_state, 7)

\* SendCommand::wait_and_send: wait_for_idle (busy-flag polling), then send
wait_and_send(M, cs) == send(M, cs, "poll", M.poll)

(***************************************************************************)
(* state.rs: LcdState                                                      *)
(***************************************************************************)
\* #[derive(Default)] with the enums' #[default] variants
LcdState_default ==
    [data_width |-> "Bit4", line |-> "TwoLine", font |-> "Font5x8",
     display_on |-> "On", cursor_on |-> "On", cursor_blink |-> "On",
     direction |-> "LeftToRight", shift_type |-> "CursorOnly",
     cursor_pos |-> <<0, 0>>, display_offset |-> 0, ram_type |-> "DDRam",
     backlight |-> "On"]

LineCapacityOf(line) == IF line = "OneLine" THEN 80 ELSE 40

get_line_capacity(s) == LineCapacityOf(s.line)

LcdState_set_line_mode(M, line) ==
    IF M.fatal THEN M
    ELSE IF ~((M.st.font = "Font5x11") /\ (line = "OneLine")) THEN Panic(M)
    ELSE [M EXCEPT !.st.line = line]

\* a plausible slip: the font stored with no check of the line mode
LcdState_set_font_mut(M, font) ==
    IF M.fatal THEN M
    ELSE [M EXCEPT !.st.font = font]

LcdState_set_font(M, font) ==
    IF M.fatal THEN M
    ELSE IF ~((M.st.line = "TwoLine") /\ (font = "Font5x8")) THEN Panic(M)
    ELSE [M EXCEPT !.st.font = font]

\* the assertion of LcdState::get_cursor_pos
get_cursor_pos_ok(s) == s.ram_type = "DDRam"

\* a plausible slip: the column compared with <= instead of <
cursor_pos_ok_mut(s, pos) ==
    IF s.line = "OneLine"
    THEN pos[1] <= get_line_capacity(s) /\ pos[2] < 1
    ELSE pos[1] <= get_line_capacity(s) /\ pos[2] < 2

\* the assertions of LcdState::set_cursor_pos
cursor_pos_ok(s, pos) ==
    IF s.line = "OneLine"
    THEN pos[1] < get_line_capacity(s) /\ pos[2] < 1
    ELSE pos[1] < get_line_capacity(s) /\ pos[2] < 2

LcdState_set_cursor_pos(M, pos) ==
    IF M.fatal THEN M
    ELSE IF ~cursor_pos_ok(M.st, pos) THEN Panic(M)
    ELSE [M EXCEPT !.st.cursor_pos = pos]

LcdState_set_display_offset(M, offset) ==
    IF M.fatal THEN M
    ELSE IF offset >= get_line_capacity(M.st) THEN Panic(M)
    ELSE [M EXCEPT !.st.display_offset = offset]

\* where a cursor at pos lands after one step in direction dir
\* (the CursorOnly arm of LcdState::shift_cursor_or_display)
cursor_step(line, pos, dir) ==
    LET line_capacity == LineCapacityOf(line)
    IN  IF dir = "LeftToRight"
        THEN IF line = "OneLine"
             THEN IF pos[1] = line_capacity - 1 THEN <<0, 0>> ELSE <<pos[1] + 1, 0>>
             ELSE IF pos[1] = line_capacity - 1
                  THEN IF pos[2] = 0 THEN <<0, 1>> ELSE <<0, 0>>
                  ELSE <<pos[1] + 1, pos[2]>>
        ELSE IF line = "OneLine"
             THEN IF pos[1] = 0 THEN <<line_capacity - 1, 0>> ELSE <<pos[1] - 1, 0>>
             ELSE IF pos[1] = 0
                  THEN IF pos[2] = 0 THEN <<line_capacity - 1, 1>>
                       ELSE <<line_capacity - 1, 0>>
                  ELSE <<pos[1] - 1, pos[2]>>

\* a plausible slip: the wrap from offset 0 lands one column short
display_step_mut(line, offset, dir) ==
    LET line_capacity == LineCapacityOf(line)
    IN  IF dir = "LeftToRight"
        THEN IF offset = line_capacity - 1 THEN 0 ELSE offset + 1
        ELSE IF offset = 0 THEN line_capacity - 2 ELSE offset - 1

\* the CursorAndDisplay arm of LcdState::shift_cursor_or_display
display_step(line, offset, dir) ==
    LET line_capacity == LineCapacityOf(line)
    IN  IF dir = "LeftToRight"
        THEN IF offset = line_capacity - 1 THEN 0 ELSE offset + 1
        ELSE IF offset = 0 THEN line_capacity - 1 ELSE offset - 1

\* LcdState::shift_cursor_or_display; it reads get_cursor_pos() first,
\* whatever the shift type
LcdState_shift_cursor_or_display(M, st, dir) ==
    IF M.fatal THEN M
    ELSE IF ~get_cursor_pos_ok(M.st) THEN Panic(M)
    ELSE IF st = "CursorOnly"
         THEN LcdState_set_cursor_pos(M, cursor_step(M.st.line, M.st.cursor_pos, dir))
         ELSE LcdState_set_display_offset(
                  M, display_step(M.st.line, M.st.display_offset, dir))

(***************************************************************************)
(* state.rs: calculate_pos_by_offset, in i8/u8 arithmetic.  An i8 addition *)
(* that leaves [-128, 127] panics in a build with overflow checks and      *)
(* wraps in one without; checks says which build runs.                     *)
(***************************************************************************)
AsI8(n) == LET m == n % 256 IN IF m >= 128 THEN m - 256 ELSE m

AsU8(n) == n % 256

\* a - b in u8: [ok |-> no overflow panic, v |-> the value]; a build without
\* overflow checks wraps
u8_sub(a, b, checks) ==
    IF a - b < 0 THEN [ok |-> ~checks, v |-> AsU8(a - b)] ELSE [ok |-> TRUE, v |-> a - b]

Abs(n) == IF n < 0 THEN -n ELSE n

\* i8::abs: the absolute value of -128 does not fit; a build with overflow
\* checks panics, one without returns -128
i8_abs(n, checks) == IF n = -128 THEN (IF checks THEN Panicked ELSE -128) ELSE Abs(n)

\* the assertions on the offset (unsigned_abs cannot overflow, abs can)
offset_ok(line, offset, checks) ==
    IF line = "OneLine"
    THEN Abs(offset[1]) < LineCapacityOf(line) /\ offset[2] = 0
    ELSE /\ Abs(offset[1]) < LineCapacityOf(line)
         /\ ~(offset[2] = -128 /\ checks)
         /\ i8_abs(offset[2], checks) < 2

\* let raw_x_pos = (original_pos.0 as i8) + offset.0
raw_x_sum(original_pos, offset) == AsI8(original_pos[1]) + offset[1]

i8_overflows(n) == n < -128 \/ n > 127

\* a plausible slip: column 0 itself taken as an underflow
x_carry_mut(raw_x_pos, line_capacity) ==
    IF raw_x_pos <= 0 THEN -1 ELSE IF raw_x_pos > line_capacity THEN 1 ELSE 0

\* which way the column sum left the line: -1 when raw_x_pos < 0, 1 when
\* raw_x_pos > line_capacity, 0 otherwise
x_carry(raw_x_pos, line_capacity) ==
    IF raw_x_pos < 0 THEN -1 ELSE IF raw_x_pos > line_capacity THEN 1 ELSE 0

\* returns [ok |-> the call did not panic, pos |-> the position returned]
calculate_pos_by_offset(line, original_pos, offset, checks) ==
    LET line_capacity == LineCapacityOf(line)
        sum == raw_x_sum(original_pos, offset)
        raw_x_pos == AsI8(sum)
    IN  IF ~offset_ok(line, offset, checks) THEN [ok |-> FALSE, pos |-> original_pos]
        ELSE IF i8_overflows(sum) /\ checks THEN [ok |-> FALSE, pos |-> original_pos]
        ELSE IF line = "OneLine"
        THEN IF x_carry(raw_x_pos, line_capacity) = -1
             THEN [ok |-> TRUE, pos |-> <<AsU8(raw_x_pos + line_capacity), 0>>]
             ELSE IF x_carry(raw_x_pos, line_capacity) = 1
             THEN [ok |-> TRUE, pos |-> <<AsU8(raw_x_pos - line_capacity), 0>>]
             ELSE [ok |-> TRUE, pos |-> <<AsU8(raw_x_pos), 0>>]
        ELSE LET x_overflow == x_carry(raw_x_pos, line_capacity)
                 x == IF x_overflow = -1 THEN raw_x_pos + 2
                      ELSE IF x_overflow = 1 THEN raw_x_pos - 2
                      ELSE raw_x_pos
                 y_sum == AsI8(original_pos[2]) + offset[2]
                 y_carried == AsI8(y_sum) + x_overflow
                 y0 == AsI8(y_carried)
                 y == IF y0 < 0 THEN y0 + 2 ELSE IF y0 > 2 THEN y0 - 2 ELSE y0
             IN  IF checks /\ (i8_overflows(y_sum) \/ i8_overflows(y_carried))
                 THEN [ok |-> FALSE, pos |-> original_pos]
                 ELSE [ok |-> TRUE, pos |-> <<AsU8(x), AsU8(y)>>]

(***************************************************************************)
(* lcd.rs: the facade (impl Lcd), with impl_lcd_api.rs where the older     *)
(* revision differs                                                        *)
(***************************************************************************)
\* a plausible slip: the row is scaled by 0x80 instead of 0x40
set_cursor_pos_mut(M, pos) ==
    IF M.fatal THEN M
    ELSE LET M1 == LcdState_set_cursor_pos([M EXCEPT !.st.ram_type = "DDRam"], pos)
             raw_pos == pos[2] * 128 + pos[1]
         IN  wait_and_send(M1, SetDDRAM(raw_pos))

\* Lcd::set_cursor_pos
set_cursor_pos(M, pos) ==
    IF M.fatal THEN M
    ELSE LET M1 == LcdState_set_cursor_pos([M EXCEPT !.st.ram_type = "DDRam"], pos)
             raw_pos == pos[2] * 64 + pos[1]
         IN  wait_and_send(M1, SetDDRAM(raw_pos))

\* a plausible slip: the address is sent but ram_type is left as it was
set_cgram_addr_mut(M, addr) ==
    IF M.fatal THEN M
    ELSE IF ~(addr < Pow2(6)) THEN Panic(M)
    ELSE wait_and_send(M, SetCGRAM(addr))

\* Lcd::set_cgram_addr
set_cgram_addr(M, addr) ==
    IF M.fatal THEN M
    ELSE IF ~(addr < Pow2(6)) THEN Panic(M)
    ELSE wait_and_send([M EXCEPT !.st.ram_type = "CGRam"], SetCGRAM(addr))

\* a plausible slip: right to left, the wrap at column 0 keeps the row
write_raw_pos_mut(line, last_pos, direction) ==
    LET line_capacity == LineCapacityOf(line)
    IN  IF direction = "RightToLeft"
        THEN IF line = "OneLine"
             THEN IF last_pos[1] = 0 THEN <<line_capacity - 1, 0>>
                  ELSE <<last_pos[1] - 1, 0>>
             ELSE IF last_pos[1] = 0
                  THEN <<line_capacity - 1, last_pos[2]>>
                  ELSE <<last_pos[1] - 1, last_pos[2]>>
        ELSE IF line = "OneLine"
             THEN IF last_pos[1] = line_capacity - 1 THEN <<0, 0>>
                  ELSE <<last_pos[1] + 1, 0>>
             ELSE IF last_pos[1] = line_capacity - 1
                  THEN IF last_pos[2] = 0 THEN <<0, 1>> ELSE <<0, 0>>
                  ELSE <<last_pos[1] + 1, last_pos[2]>>

\* the position computed after the data write in Lcd::write_u8_to_cur
\* (lcd.rs lines 73-114)
write_raw_pos(line, last_pos, direction) ==
    LET line_capacity == LineCapacityOf(line)
    IN  IF direction = "RightToLeft"
        THEN IF line = "OneLine"
             THEN IF last_pos[1] = 0 THEN <<line_capacity - 1, 0>>
                  ELSE <<last_pos[1] - 1, 0>>
             ELSE IF last_pos[1] = 0
                  THEN IF last_pos[2] = 1 THEN <<line_capacity - 1, 0>>
                       ELSE <<line_capacity - 1, 1>>
                  ELSE <<last_pos[1] - 1, last_pos[2]>>
        ELSE IF line = "OneLine"
             THEN IF last_pos[1] = line_capacity - 1 THEN <<0, 0>>
                  ELSE <<last_pos[1] + 1, 0>>
             ELSE IF last_pos[1] = line_capacity - 1
                  THEN IF last_pos[2] = 0 THEN <<0, 1>> ELSE <<0, 0>>
                  ELSE <<last_pos[1] + 1, last_pos[2]>>

\* the same computation in the older revision (impl_lcd_api.rs lines 53-94):
\* two lines, left to right, from the end of row 0 it yields (1, 0)
write_raw_pos_old(line, last_pos, direction) ==
    LET line_capacity == LineCapacityOf(line)
    IN  IF direction = "RightToLeft"
        THEN IF line = "OneLine"
             THEN IF last_pos[1] = 0 THEN <<line_capacity - 1, 0>>
                  ELSE <<last_pos[1] - 1, 0>>
             ELSE IF last_pos[1] = 0
                  THEN IF last_pos[2] = 1 THEN <<line_capacity - 1, 0>>
                       ELSE <<line_capacity - 1, 1>>
                  ELSE <<last_pos[1] - 1, last_pos[2]>>
        ELSE IF line = "OneLine"
             THEN IF last_pos[1] = line_capacity - 1 THEN <<0, 0>>
                  ELSE <<last_pos[1] + 1, 0>>
             ELSE IF last_pos[1] = line_capacity - 1
                  THEN IF last_pos[2] = 0 THEN <<1, 0>> ELSE <<0, 0>>
                  ELSE <<last_pos[1] + 1, last_pos[2]>>

\* Lcd::write_u8_to_cur.  lcd.rs stores the new position through the facade's
\* set_cursor_pos (which also sends SetDDRAM); impl_lcd_api.rs stores it
\* through internal_set_cursor_pos (no command).
write_u8_to_cur(M, rv, byte) ==
    IF M.fatal THEN M
    ELSE IF ~(M.st.ram_type = "DDRam") THEN Panic(M)
    ELSE LET M1 == wait_and_send(M, WriteDataToRAM(byte))
         IN  IF rv = "lcd"
             THEN set_cursor_pos(
                      M1, write_raw_pos(M1.st.line, M1.st.cursor_pos, M1.st.direction))
             ELSE LcdState_set_cursor_pos(
                      M1, write_raw_pos_old(M1.st.line, M1.st.cursor_pos, M1.st.direction))

\* Lcd::read_u8_from_cur
read_u8_from_cur(M) == wait_and_send(M, ReadDataFromRAM)

\* a plausible slip: every ASCII char from 0x20 on is passed through
char_out_byte_mut(ch) == IF ch < 128 /\ 32 <= ch THEN ch ELSE 255

\* the byte Lcd::write_char_to_cur sends for the character with code point ch
char_out_byte(ch) == IF ch < 128 /\ 32 <= ch /\ ch <= 125 THEN ch ELSE 255

\* Lcd::write_char_to_cur
write_char_to_cur(M, rv, ch) ==
    IF M.fatal THEN M
    ELSE IF ~(M.st.ram_type = "DDRam") THEN Panic(M)
    ELSE write_u8_to_cur(M, rv, char_out_byte(ch))

\* Lcd::write_byte_to_pos
write_byte_to_pos(M, byte, pos) ==
    wait_and_send(set_cursor_pos(M, pos), WriteDataToRAM(byte))

\* Lcd::read_byte_from_pos
read_byte_from_pos(M, pos) ==
    IF M.fatal THEN M
    ELSE IF ~get_cursor_pos_ok(M.st) THEN Panic(M)
    ELSE LET original_pos == M.st.cursor_pos
         IN  set_cursor_pos(read_u8_from_cur(set_cursor_pos(M, pos)), original_pos)

\* Lcd::get_cursor_pos: a getter, fatal while ram_type is CGRam
get_cursor_pos(M) ==
    IF M.fatal THEN M
    ELSE IF ~get_cursor_pos_ok(M.st) THEN Panic(M)
    ELSE M

\* Lcd::shift_cursor_or_display
shift_cursor_or_display(M, shift_type, dir) ==
    wait_and_send(LcdState_shift_cursor_or_display(M, shift_type, dir),
                  CursorOrDisplayShift(shift_type, dir))

\* Lcd::offset_cursor_pos
offset_cursor_pos(M, offset, checks) ==
    IF M.fatal THEN M
    ELSE IF ~get_cursor_pos_ok(M.st) THEN Panic(M)
    ELSE LET r == calculate_pos_by_offset(M.st.line, M.st.cursor_pos, offset, checks)
         IN  IF ~r.ok THEN Panic(M) ELSE set_cursor_pos(M, r.pos)

\* Lcd::set_line_mode
set_line_mode(M, line) ==
    LET M1 == LcdState_set_line_mode(M, line)
    IN  wait_and_send(M1, FunctionSet("Bit4", M1.st.line, M1.st.font))

\* Lcd::set_font
set_font(M, font) ==
    LET M1 == LcdState_set_font(M, font)
    IN  wait_and_send(M1, FunctionSet("Bit4", M1.st.line, M1.st.font))

\* Lcd::set_direction
set_direction(M, dir) ==
    IF M.fatal THEN M
    ELSE LET M1 == [M EXCEPT !.st.direction = dir]
         IN  wait_and_send(M1, EntryModeSet(M1.st.direction, M1.st.shift_type))

\* graph_data.iter().for_each(|&line_data| wait_and_send(WriteDataToRAM(line_data)))
RECURSIVE write_lines(_, _)
write_lines(M, lines) ==
    IF lines = <<>> THEN M
    ELSE write_lines(wait_and_send(M, WriteDataToRAM(Head(lines))), Tail(lines))

\* a plausible slip: the lines are written in the configured direction
write_graph_to_cgram_mut(M, index, graph_data) ==
    IF M.fatal THEN M
    ELSE IF ~(index < 8) THEN Panic(M)
    ELSE IF ~(\A i \in 1..Len(graph_data) : graph_data[i] < Pow2(5)) THEN Panic(M)
    ELSE write_lines(set_cgram_addr(M, (index * 8) % 256), graph_data)

\* Lcd::write_graph_to_cgram
write_graph_to_cgram(M, index, graph_data) ==
    IF M.fatal THEN M
    ELSE IF ~(index < 8) THEN Panic(M)
    ELSE IF ~(\A i \in 1..Len(graph_data) : graph_data[i] < Pow2(5)) THEN Panic(M)
    ELSE LET direction_fliped == M.st.direction = "RightToLeft"
             M1 == IF direction_fliped THEN set_direction(M, "LeftToRight") ELSE M
             cgram_data_addr_start == (index * 8) % 256
             M2 == set_cgram_addr(M1, cgram_data_addr_start)
             M3 == write_lines(M2, graph_data)
         IN  IF direction_fliped THEN set_direction(M3, "RightToLeft") ELSE M3

\* graph.iter_mut().for_each(|line| *line = self.read_u8_from_cur())
RECURSIVE read_lines(_, _)
read_lines(M, n) ==
    IF n = 0 THEN M ELSE read_lines(read_u8_from_cur(M), n - 1)

\* Lcd::read_graph_from_cgram
read_graph_from_cgram(M, index) ==
    IF M.fatal THEN M
    ELSE IF ~(index < 8) THEN Panic(M)
    ELSE read_lines(set_cgram_addr(M, (index * 8) % 256), 8)

(***************************************************************************)
(* lcd.rs, feature LcdAnim: shift_display_to_pos                           *)
(***************************************************************************)
MoveStyles == {"ForceMoveLeft", "ForceMoveRight", "NoCrossBoundary", "Shortest"}

\* Lcd::set_display_state
set_display_state(M, display) ==
    IF M.fatal THEN M
    ELSE LET M1 == [M EXCEPT !.st.display_on = display]
         IN  wait_and_send(M1, DisplayOnOff(M1.st.display_on, M1.st.cursor_on,
                                            M1.st.cursor_blink))

\* Lcd::set_cursor_state
set_cursor_state(M, cursor) ==
    IF M.fatal THEN M
    ELSE LET M1 == [M EXCEPT !.st.cursor_on = cursor]
         IN  wait_and_send(M1, DisplayOnOff(M1.st.display_on, M1.st.cursor_on,
                                            M1.st.cursor_blink))

\* Lcd::set_cursor_blink_state
set_cursor_blink_state(M, blink) ==
    IF M.fatal THEN M
    ELSE LET M1 == [M EXCEPT !.st.cursor_blink = blink]
         IN  wait_and_send(M1, DisplayOnOff(M1.st.display_on, M1.st.cursor_on,
                                            M1.st.cursor_blink))

\* Lcd::set_shift_type
set_shift_type(M, shift) ==
    IF M.fatal THEN M
    ELSE LET M1 == [M EXCEPT !.st.shift_type = shift]
         IN  wait_and_send(M1, EntryModeSet(M1.st.direction, M1.st.shift_type))

\* Lcd::set_poll_interval
set_poll_interval(M, interval_us) == IF M.fatal THEN M ELSE [M EXCEPT !.poll = interval_us]

\* Lcd::delay_ms: the delayer is asked to wait for ms milliseconds (the entry
\* carries the number of milliseconds); the older revision does not call
\* the delayer for a wait of 0
Lcd_delay_ms(M, rv, ms) ==
    IF M.fatal THEN M
    ELSE IF rv = "impl_lcd_api" /\ ~(ms > 0) THEN M
    ELSE [M EXCEPT !.wire = Append(@, [cmd |-> NoCommand, how |-> "sleep_ms", us |-> ms,
                                       at |-> HwFlags(M.hw)])]

\* Lcd::write_graph_to_cur
write_graph_to_cur(M, rv, index) ==
    IF M.fatal THEN M
    ELSE IF ~(index < 8) THEN Panic(M)
    ELSE write_u8_to_cur(M, rv, index)

\* Lcd::write_str_to_cur: str.chars().for_each(|char| write_char_to_cur(char))
RECURSIVE write_str_to_cur(_, _, _)
write_str_to_cur(M, rv, str) ==
    IF str = <<>> \/ M.fatal THEN M
    ELSE write_str_to_cur(write_char_to_cur(M, rv, Head(str)), rv, Tail(str))

\* Lcd::write_char_to_pos
write_char_to_pos(M, rv, ch, pos) == write_char_to_cur(set_cursor_pos(M, pos), rv, ch)

\* Lcd::write_str_to_pos
write_str_to_pos(M, rv, str, pos) == write_str_to_cur(set_cursor_pos(M, pos), rv, str)

\* Lcd::write_graph_to_pos
write_graph_to_pos(M, index, pos) ==
    IF M.fatal THEN M
    ELSE IF ~(index < 8) THEN Panic(M)
    ELSE write_byte_to_pos(M, index, pos)

\* Lcd::typewriter_write: before each char, a wait
RECURSIVE typewriter_write(_, _, _, _)
typewriter_write(M, rv, str, delay_us) ==
    IF str = <<>> \/ M.fatal THEN M
    ELSE typewriter_write(write_char_to_cur(Lcd_delay_us(M, rv, delay_us), rv, Head(str)),
                          rv, Tail(str), delay_us)

\* a plausible slip: a step of exactly half the capacity takes the wrap
within_half_mut(d, line_capacity) == d < line_capacity \div 2

\* the test "d <= line_capacity / 2" of the Shortest arm
within_half(d, line_capacity) == d <= line_capacity \div 2

\* (distance, direction), distance being a - b in u8
plan_of(d, direction) == [ok |-> d.ok, distance |-> d.v, direction |-> direction]

\* line_capacity - (hi - lo), in u8; hi >= lo where it is used
capacity_minus(line_capacity, hi, lo, checks) ==
    u8_sub(line_capacity, u8_sub(hi, lo, checks).v, checks)

\* a plausible slip: Shortest never crosses the boundary
shortest_plan_mut(line_capacity, before_pos, target_pos, checks) ==
    IF target_pos > before_pos
    THEN plan_of(u8_sub(target_pos, before_pos, checks), "LeftToRight")
    ELSE plan_of(u8_sub(before_pos, target_pos, checks), "RightToLeft")

\* the MoveStyle::Shortest arm of shift_display_to_pos
shortest_plan(line_capacity, before_pos, target_pos, checks) ==
    IF target_pos > before_pos
    THEN IF within_half(target_pos - before_pos, line_capacity)
         THEN plan_of(u8_sub(target_pos, before_pos, checks), "LeftToRight")
         ELSE plan_of(capacity_minus(line_capacity, target_pos, before_pos, checks),
                      "RightToLeft")
    ELSE IF within_half(before_pos - target_pos, line_capacity)
         THEN plan_of(u8_sub(before_pos, target_pos, checks), "RightToLeft")
         ELSE plan_of(capacity_minus(line_capacity, before_pos, target_pos, checks),
                      "LeftToRight")

\* the (distance, direction) match of shift_display_to_pos; target_pos is
\* any u8, and line_capacity - (target_pos - before_pos) underflows when the
\* target is more than a line away
shift_plan(line_capacity, before_pos, target_pos, ms, checks) ==
    CASE ms = "ForceMoveLeft" ->
            IF target_pos < before_pos
            THEN plan_of(u8_sub(before_pos, target_pos, checks), "RightToLeft")
            ELSE plan_of(capacity_minus(line_capacity, target_pos, before_pos, checks),
                         "RightToLeft")
      [] ms = "ForceMoveRight" ->
            IF target_pos > before_pos
            THEN plan_of(u8_sub(target_pos, before_pos, checks), "LeftToRight")
            ELSE plan_of(capacity_minus(line_capacity, before_pos, target_pos, checks),
                         "LeftToRight")
      [] ms = "NoCrossBoundary" ->
            IF target_pos > before_pos
            THEN plan_of(u8_sub(target_pos, before_pos, checks), "LeftToRight")
            ELSE plan_of(u8_sub(before_pos, target_pos, checks), "RightToLeft")
      [] ms = "Shortest" -> shortest_plan(line_capacity, before_pos, target_pos, checks)

\* a plausible slip: the delay comes after the step instead of before it
RECURSIVE shift_steps_mut(_, _, _, _, _)
shift_steps_mut(M, rv, distance, direction, delay_us_per_step) ==
    IF distance = 0 \/ M.fatal THEN M
    ELSE IF distance = 1
    THEN Lcd_delay_us(shift_cursor_or_display(M, "CursorAndDisplay", direction),
                      rv, delay_us_per_step)
    ELSE shift_steps_mut(
             shift_steps_mut(M, rv, distance \div 2, direction, delay_us_per_step),
             rv, distance - (distance \div 2), direction, delay_us_per_step)

\* (0..distance).for_each(|_| { delay_us; shift_cursor_or_display }); a panic
\* ends the loop.  The rounds are taken as a first and a second half.
RECURSIVE shift_steps(_, _, _, _, _)
shift_steps(M, rv, distance, direction, delay_us_per_step) ==
    IF distance = 0 \/ M.fatal THEN M
    ELSE IF distance = 1
    THEN shift_cursor_or_display(Lcd_delay_us(M, rv, delay_us_per_step),
                                 "CursorAndDisplay", direction)
    ELSE shift_steps(
             shift_steps(M, rv, distance \div 2, direction, delay_us_per_step),
             rv, distance - (distance \div 2), direction, delay_us_per_step)

\* a plausible slip: the display state of before the call is not put back
shift_display_to_pos_mut(M, rv, target_pos, ms, display_state_when_shift, delay_us_per_step, checks) ==
    IF M.fatal THEN M
    ELSE IF M.st.display_offset = target_pos THEN M
    ELSE IF rv = "impl_lcd_api" /\ ~(target_pos < get_line_capacity(M.st)) THEN Panic(M)
    ELSE LET plan == shift_plan(get_line_capacity(M.st), M.st.display_offset,
                                target_pos, ms, checks)
             M1 == set_display_state(M, display_state_when_shift)
             M2 == shift_steps(M1, rv, plan.distance, plan.direction, delay_us_per_step)
         IN  IF ~plan.ok THEN Panic(M1)
             ELSE set_display_state(M2, display_state_when_shift)

\* Lcd::shift_display_to_pos; the display is switched before the distance
\* is computed, so an underflow there panics with the display switched.
\* The older revision (impl_animation.rs) first asserts that the target is
\* below the line capacity, 40 or 80 by line mode.
shift_display_to_pos(M, rv, target_pos, ms, display_state_when_shift, delay_us_per_step, checks) ==
    IF M.fatal THEN M
    ELSE IF M.st.display_offset = target_pos THEN M
    ELSE IF rv = "impl_lcd_api" /\ ~(target_pos < get_line_capacity(M.st)) THEN Panic(M)
    ELSE LET before_state == M.st.display_on
             plan == shift_plan(get_line_capacity(M.st), M.st.display_offset,
                                target_pos, ms, checks)
             M1 == set_display_state(M, display_state_when_shift)
             M2 == shift_steps(M1, rv, plan.distance, plan.direction, delay_us_per_step)
         IN  IF ~plan.ok THEN Panic(M1)
             ELSE set_display_state(M2, before_state)

(***************************************************************************)
(* lcd.rs, feature LcdAnim: split_flap_write.  A string is the sequence of *)
(* its chars' code points; an Option is the empty sequence or a sequence   *)
(* of one value.                                                           *)
(***************************************************************************)
FlipStyles == {"Sequential", "Simultaneous"}

None == <<>>
Some(v) == <<v>>

\* a plausible slip: the low byte is tested and is_ascii() is forgotten
flap_char_ok_mut(ch) == 32 <= ch % 256 /\ ch % 256 <= 125

\* char.is_ascii() && (0x20 <= char as u8) && (char as u8 <= 0x7D)
flap_char_ok(ch) == ch < 128 /\ 32 <= ch % 256 /\ ch % 256 <= 125

RECURSIVE min_char(_)
min_char(str) ==
    IF Len(str) = 1 THEN str[1]
    ELSE LET m == min_char(Tail(str)) IN IF str[1] <= m THEN str[1] ELSE m

RECURSIVE max_char(_)
max_char(str) ==
    IF Len(str) = 1 THEN str[1]
    ELSE LET m == max_char(Tail(str)) IN IF str[1] >= m THEN str[1] ELSE m

\* the older revision takes max_flip_count as a u8, 0 standing for no limit
flip_count(max_flip_cnt) == IF max_flip_cnt = None THEN 0 ELSE max_flip_cnt[1]

\* whether the flips start at 0x20 without looking at the chars: None in
\* lcd.rs, max_flip_count == 0 in the older revision
flap_unlimited(rv, max_flip_cnt) ==
    IF rv = "impl_lcd_api" THEN flip_count(max_flip_cnt) = 0 ELSE max_flip_cnt = None

\* flap_start_byte of the Sequential arm
sequential_start_byte(rv, cur_byte, max_flip_cnt, checks) ==
    IF flap_unlimited(rv, max_flip_cnt) THEN [ok |-> TRUE, v |-> 32]
    ELSE LET d == u8_sub(cur_byte, max_flip_cnt[1], checks)
         IN  IF ~d.ok THEN d
             ELSE IF d.v < 32 THEN [ok |-> TRUE, v |-> 32] ELSE d

\* flap_start_byte of the Simultaneous arm
simultaneous_start_byte(rv, min_char_byte, max_char_byte, max_flip_cnt, checks) ==
    IF flap_unlimited(rv, max_flip_cnt) THEN [ok |-> TRUE, v |-> 32]
    ELSE IF max_char_byte - min_char_byte > max_flip_cnt[1]
         THEN [ok |-> TRUE, v |-> min_char_byte]
         ELSE LET d == u8_sub(max_char_byte, max_flip_cnt[1], checks)
              IN  IF ~d.ok THEN d
                  ELSE IF d.v < 32 THEN [ok |-> TRUE, v |-> 32] ELSE d

\* (flap_start_byte..=cur_byte).for_each(|byte| { delay_us; write_byte_to_pos })
RECURSIVE sequential_flips(_, _, _, _, _, _)
sequential_flips(M, rv, byte, cur_byte, cur_pos, per_flip_delay_us) ==
    IF byte > cur_byte \/ M.fatal THEN M
    ELSE sequential_flips(
             write_byte_to_pos(Lcd_delay_us(M, rv, per_flip_delay_us), byte, cur_pos),
             rv, byte + 1, cur_byte, cur_pos, per_flip_delay_us)

\* self.shift_cursor_or_display(ShiftType::CursorOnly, self.get_direction())
sequential_advance(M) ==
    IF M.fatal THEN M ELSE shift_cursor_or_display(M, "CursorOnly", M.st.direction)

\* one char of the Sequential arm
sequential_char(M, rv, cur_byte, max_flip_cnt, per_flip_delay_us, per_char_flip_delay_us, checks) ==
    IF M.fatal THEN M
    ELSE IF ~sequential_start_byte(rv, cur_byte, max_flip_cnt, checks).ok THEN Panic(M)
    ELSE sequential_advance(
             sequential_flips(
                 Lcd_delay_us(get_cursor_pos(M), rv, per_char_flip_delay_us[1]),
                 rv, sequential_start_byte(rv, cur_byte, max_flip_cnt, checks).v,
                 cur_byte, M.st.cursor_pos, per_flip_delay_us))

\* str.chars().for_each(...) of the Sequential arm, from the char at index i on
RECURSIVE sequential_chars(_, _, _, _, _, _, _, _)
sequential_chars(M, rv, str, i, max_flip_cnt, per_flip_delay_us, per_char_flip_delay_us, checks) ==
    IF i > Len(str) \/ M.fatal THEN M
    ELSE sequential_chars(
             sequential_char(M, rv, str[i] % 256, max_flip_cnt, per_flip_delay_us,
                             per_char_flip_delay_us, checks),
             rv, str, i + 1, max_flip_cnt, per_flip_delay_us, per_char_flip_delay_us,
             checks)

\* where the char at index sits: calculate_pos_by_offset(start_pos, (+-index, 0))
\* `index as i8` truncates; negating -128 panics in a build with overflow
\* checks and gives -128 in one without
flap_pos(line, direction, start_pos, index, checks) ==
    IF direction = "RightToLeft" /\ AsI8(index) = -128 /\ checks
    THEN [ok |-> FALSE, pos |-> start_pos]
    ELSE calculate_pos_by_offset(
             line, start_pos,
             IF direction = "RightToLeft" THEN <<AsI8(-AsI8(index)), 0>>
             ELSE <<AsI8(index), 0>>, checks)

\* the write of one cell: a position that could not be calculated is a panic
simultaneous_cell(M, cur_byte, cur_pos) ==
    IF M.fatal THEN M
    ELSE IF ~cur_pos.ok THEN Panic(M)
    ELSE write_byte_to_pos(M, cur_byte, cur_pos.pos)

\* a plausible slip: a cell is left out once the scan reaches its target
RECURSIVE simultaneous_cells_mut(_, _, _, _, _, _)
simultaneous_cells_mut(M, str, i, cur_byte, start_pos, checks) ==
    IF i > Len(str) \/ M.fatal THEN M
    ELSE simultaneous_cells_mut(
             IF cur_byte < str[i] % 256
             THEN simultaneous_cell(
                      M, cur_byte,
                      flap_pos(M.st.line, M.st.direction, start_pos, i - 1, checks))
             ELSE M,
             str, i + 1, cur_byte, start_pos, checks)

\* one scan step of the Simultaneous arm, from the char at index i on: the
\* chars with cur_byte <= target are written
RECURSIVE simultaneous_cells(_, _, _, _, _, _)
simultaneous_cells(M, str, i, cur_byte, start_pos, checks) ==
    IF i > Len(str) \/ M.fatal THEN M
    ELSE simultaneous_cells(
             IF cur_byte <= str[i] % 256
             THEN simultaneous_cell(
                      M, cur_byte,
                      flap_pos(M.st.line, M.st.direction, start_pos, i - 1, checks))
             ELSE M,
             str, i + 1, cur_byte, start_pos, checks)

\* (flap_start_byte..=max_char_byte).for_each(|cur_byte| { delay_us; ... })
RECURSIVE simultaneous_scan(_, _, _, _, _, _, _, _)
simultaneous_scan(M, rv, str, cur_byte, max_char_byte, start_pos, per_flip_delay_us, checks) ==
    IF cur_byte > max_char_byte \/ M.fatal THEN M
    ELSE simultaneous_scan(
             simultaneous_cells(Lcd_delay_us(M, rv, per_flip_delay_us), str, 1, cur_byte,
                                start_pos, checks),
             rv, str, cur_byte + 1, max_char_byte, start_pos, per_flip_delay_us, checks)

\* the cursor is put at the end of the string
simultaneous_end(M, end_pos) ==
    IF M.fatal THEN M
    ELSE IF ~end_pos.ok THEN Panic(M)
    ELSE set_cursor_pos(M, end_pos.pos)

\* the scan and the move to the end, from the start byte found.  lcd.rs
\* moves the cursor after the scan; the older revision does it inside the
\* scan, in the round of max_char_byte, which an empty scan never has
simultaneous_run(M, rv, str, start, start_pos, per_flip_delay_us, checks) ==
    IF M.fatal THEN M
    ELSE IF ~start.ok THEN Panic(M)
    ELSE IF rv = "impl_lcd_api" /\ start.v > max_char(str) % 256 THEN get_cursor_pos(M)
    ELSE simultaneous_end(
             simultaneous_scan(get_cursor_pos(M), rv, str, start.v, max_char(str) % 256,
                               start_pos, per_flip_delay_us, checks),
             flap_pos(M.st.line, M.st.direction, start_pos, Len(str), checks))

\* the FlipStyle::Simultaneous arm; min() of an empty string is None and
\* unwrap panics
simultaneous_write(M, rv, str, max_flip_cnt, per_flip_delay_us, checks) ==
    IF M.fatal THEN M
    ELSE IF Len(str) = 0 THEN Panic(M)
    ELSE simultaneous_run(
             M, rv, str,
             simultaneous_start_byte(rv, min_char(str) % 256, max_char(str) % 256,
                                     max_flip_cnt, checks),
             M.st.cursor_pos, per_flip_delay_us, checks)

\* the FlipStyle::Sequential arm
sequential_write(M, rv, str, max_flip_cnt, per_flip_delay_us, per_char_flip_delay_us, checks) ==
    IF M.fatal THEN M
    ELSE IF per_char_flip_delay_us = None THEN Panic(M)
    ELSE sequential_chars(M, rv, str, 1, max_flip_cnt, per_flip_delay_us,
                          per_char_flip_delay_us, checks)

\* match fs { ... }
flap_by_style(M, rv, str, fs, max_flip_cnt, per_flip_delay_us, per_char_flip_delay_us, checks) ==
    IF fs = "Sequential"
    THEN sequential_write(M, rv, str, max_flip_cnt, per_flip_delay_us,
                          per_char_flip_delay_us, checks)
    ELSE simultaneous_write(M, rv, str, max_flip_cnt, per_flip_delay_us, checks)

\* the cursor is switched off when it is not off already
flap_cursor_off(M, cursor_state_changed) ==
    IF cursor_state_changed THEN set_cursor_state(M, "Off") ELSE M

\* the cursor is switched on again when it was switched off
flap_cursor_restore(M, cursor_state_changed) ==
    IF cursor_state_changed THEN set_cursor_state(M, "On") ELSE M

\* a plausible slip: the cursor is left as it is during the effect
split_flap_write_mut(M, rv, str, fs, max_flip_cnt, per_flip_delay_us, per_char_flip_delay_us, checks) ==
    IF M.fatal THEN M
    ELSE IF ~(\A i \in 1..Len(str) : flap_char_ok(str[i])) THEN Panic(M)
    ELSE flap_by_style(M, rv, str, fs, max_flip_cnt, per_flip_delay_us,
                       per_char_flip_delay_us, checks)

\* Lcd::split_flap_write; checks says whether the build checks overflow
split_flap_write(M, rv, str, fs, max_flip_cnt, per_flip_delay_us, per_char_flip_delay_us, checks) ==
    IF M.fatal THEN M
    ELSE IF ~(\A i \in 1..Len(str) : flap_char_ok(str[i])) THEN Panic(M)
    ELSE flap_cursor_restore(
             flap_by_style(flap_cursor_off(M, M.st.cursor_on # "Off"), rv, str, fs,
                           max_flip_cnt, per_flip_delay_us, per_char_flip_delay_us,
                           checks),
             M.st.cursor_on # "Off")

(***************************************************************************)
(* lcd.rs, features LcdExt and LcdAnim: full_display_blink.  A u32 count   *)
(* is kept as [hi, lo], standing for hi * 2^31 + lo with lo below 2^30, so *)
(* that count * 2 can be followed past the 32 bits.                        *)
(***************************************************************************)
U32(hi, lo) == [hi |-> hi, lo |-> lo]

\* Lcd::toggle_display
toggle_display(M) ==
    IF M.fatal THEN M
    ELSE set_display_state(M, IF M.st.display_on = "Off" THEN "On" ELSE "Off")

\* one round of either loop of full_display_blink: delay_us, toggle_display
blink_step(M, rv, interval_us) == toggle_display(Lcd_delay_us(M, rv, interval_us))

\* count * 2 in u32: [ok |-> no overflow panic, v |-> the product]; the
\* product wraps to 2 * lo in a build without overflow checks
blink_rounds(count, checks) ==
    IF count.hi = 1 THEN [ok |-> ~checks, v |-> 2 * count.lo]
    ELSE [ok |-> TRUE, v |-> 2 * count.lo]

(***************************************************************************)
(* builder.rs: Builder::init, the initialization sequence                  *)
(***************************************************************************)
\* a plausible slip: display on/off sent after the clear instead of before it
Builder_init_mut(M) ==
    LET s == M.st
        fs(w) == FunctionSet(w, s.line, s.font)
        M1 == IF s.data_width = "Bit4"
              THEN delay_and_send(
                       delay_and_send(
                           delay_and_send(M, HalfFunctionSet, 40000), fs("Bit4"), 40),
                       fs("Bit4"), 40)
              ELSE delay_and_send(delay_and_send(M, fs("Bit8"), 40000), fs("Bit8"), 40)
        M2 == wait_and_send(M1, ClearDisplay)
        M3 == wait_and_send(M2, DisplayOnOff(s.display_on, s.cursor_on, s.cursor_blink))
        M4 == wait_and_send(M3, EntryModeSet(s.direction, s.shift_type))
    IN  sender_set_backlight(M4, s.backlight)

Builder_init(M) ==
    LET s == M.st
        fs(w) == FunctionSet(w, s.line, s.font)
        M1 == IF s.data_width = "Bit4"
              THEN delay_and_send(
                       delay_and_send(
                           delay_and_send(M, HalfFunctionSet, 40000), fs("Bit4"), 40),
                       fs("Bit4"), 40)
              ELSE delay_and_send(delay_and_send(M, fs("Bit8"), 40000), fs("Bit8"), 40)
        M2 == wait_and_send(M1, DisplayOnOff(s.display_on, s.cursor_on, s.cursor_blink))
        M3 == wait_and_send(M2, ClearDisplay)
        M4 == wait_and_send(M3, EntryModeSet(s.direction, s.shift_type))
    IN  sender_set_backlight(M4, s.backlight)

(***************************************************************************)
(* sender/i2c_sender.rs: I2cSender.  S = [first_command, bus, fatal, n,    *)
(* cmd, was_first]: bus is the sequence of I2C transactions, n counts the  *)
(* sends, cmd and was_first record the last send and the flag before it.   *)
(***************************************************************************)
\* I2cSender::new
I2cSender_new ==
    [first_command |-> TRUE, bus |-> <<>>, fatal |-> FALSE, n |-> 0,
     cmd |-> NoCommand, was_first |-> TRUE]

\* a plausible slip: the register-select bit is forgotten
I2cRawData_from_mut(command) ==
    LET base == 8
    IN  IF command.rw = "Write"
        THEN IF command.bits = 0 THEN [ok |-> FALSE, d0 |-> 0, d1 |-> -1]
             ELSE IF command.bits = 4
             THEN IF ~(command.data < 16) THEN [ok |-> FALSE, d0 |-> 0, d1 |-> -1]
                  ELSE [ok |-> TRUE, d0 |-> base + command.data * 16, d1 |-> -1]
             ELSE [ok |-> TRUE, d0 |-> base + (command.data \div 16) * 16,
                   d1 |-> base + (command.data % 16) * 16]
        ELSE [ok |-> TRUE, d0 |-> base + 2 + 240, d1 |-> base + 2 + 240]

\* impl From<Command> for I2cRawData: [ok, d0, d1], d1 = -1 for None
I2cRawData_from(command) ==
    LET base == IF command.rs = "Data" THEN 9 ELSE 8
    IN  IF command.rw = "Write"
        THEN IF command.bits = 0 THEN [ok |-> FALSE, d0 |-> 0, d1 |-> -1]
             ELSE IF command.bits = 4
             THEN IF ~(command.data < 16) THEN [ok |-> FALSE, d0 |-> 0, d1 |-> -1]
                  ELSE [ok |-> TRUE, d0 |-> base + command.data * 16, d1 |-> -1]
             ELSE [ok |-> TRUE, d0 |-> base + (command.data \div 16) * 16,
                   d1 |-> base + (command.data % 16) * 16]
        ELSE [ok |-> TRUE, d0 |-> base + 2 + 240, d1 |-> base + 2 + 240]

\* impl From<I2cRawData> for I2cSeq: the six bytes (zeros when d1 is None)
I2cSeq_from(raw) ==
    LET disable_0 == clear_bit(raw.d0, 2)
        enable_0 == set_bit(disable_0, 2)
        first == <<disable_0, enable_0, disable_0>>
    IN  IF raw.d1 # -1
        THEN LET disable_1 == clear_bit(raw.d1, 2)
                 enable_1 == set_bit(disable_1, 2)
             IN  first \o <<disable_1, enable_1, disable_1>>
        ELSE first \o <<0, 0, 0>>

I2cPanic(S) == [S EXCEPT !.fatal = TRUE]

I2cWrite(S, bytes) == [S EXCEPT !.bus = Append(@, [op |-> "write", bytes |-> bytes])]

I2cWriteRead(S, bytes) ==
    [S EXCEPT !.bus = Append(@, [op |-> "write_read", bytes |-> bytes])]

\* a plausible slip: the flag is never cleared
I2cSender_send_mut(S, command) ==
    IF S.fatal THEN S
    ELSE IF S.first_command
    THEN IF command.bits = 0 THEN I2cPanic(S)
         ELSE IF command.bits = 8 THEN I2cPanic(S)
         ELSE LET i2c_data == I2cRawData_from(command)
              IN  IF ~i2c_data.ok THEN I2cPanic(S)
                  ELSE IF ~(i2c_data.d0 = 32 \/ i2c_data.d0 = 40) THEN I2cPanic(S)
                  ELSE I2cWrite(S, SubSeq(I2cSeq_from(i2c_data), 1, 3))
    ELSE IF command.bits = 4 THEN I2cPanic(S)
    ELSE IF command.rw = "Write"
    THEN IF command.bits = 0 THEN I2cPanic(S)
         ELSE IF command.rs = "Command" /\ (command.data \div 16) = 3 THEN I2cPanic(S)
         ELSE I2cWrite(S, I2cSeq_from(I2cRawData_from(command)))
    ELSE LET seq == I2cSeq_from(I2cRawData_from(command))
         IN  I2cWrite(I2cWriteRead(I2cWriteRead(S, SubSeq(seq, 1, 2)), SubSeq(seq, 3, 5)),
                      SubSeq(seq, 6, 6))

\* I2cSender::send
I2cSender_send(S, command) ==
    IF S.fatal THEN S
    ELSE IF S.first_command
    THEN IF command.bits = 0 THEN I2cPanic(S)
         ELSE IF command.bits = 8 THEN I2cPanic(S)
         ELSE LET i2c_data == I2cRawData_from(command)
              IN  IF ~i2c_data.ok THEN I2cPanic(S)
                  ELSE IF ~(i2c_data.d0 = 32 \/ i2c_data.d0 = 40) THEN I2cPanic(S)
                  ELSE [I2cWrite(S, SubSeq(I2cSeq_from(i2c_data), 1, 3))
                            EXCEPT !.first_command = FALSE]
    ELSE IF command.bits = 4 THEN I2cPanic(S)
    ELSE IF command.rw = "Write"
    THEN IF command.bits = 0 THEN I2cPanic(S)
         ELSE IF command.rs = "Command" /\ (command.data \div 16) = 3 THEN I2cPanic(S)
         ELSE I2cWrite(S, I2cSeq_from(I2cRawData_from(command)))
    ELSE LET seq == I2cSeq_from(I2cRawData_from(command))
         IN  I2cWrite(I2cWriteRead(I2cWriteRead(S, SubSeq(seq, 1, 2)), SubSeq(seq, 3, 5)),
                      SubSeq(seq, 6, 6))

(***************************************************************************)
(* The state machine                                                       *)
(***************************************************************************)
Revisions == {"lcd", "impl_lcd_api"}

\* inputs the calls are tried with: the corners of the two-line geometry
\* and the nearest out-of-range values
PosInputs == {<<0, 0>>, <<1, 0>>, <<39, 0>>, <<0, 1>>, <<1, 1>>, <<39, 1>>,
              <<40, 0>>, <<0, 2>>}
OffsetInputs == {<<0, 0>>, <<1, 0>>, <<-1, 0>>, <<39, 0>>, <<-39, 0>>,
                 <<0, 1>>, <<0, -1>>, <<1, 1>>, <<40, 0>>, <<0, 2>>}
ByteInputs == {65}
\* chars: the ends of 0x20..=0x7D, their neighbours, DEL, and two non-ASCII
\* ones, the second with the low byte of 'A'
CharInputs == {32, 65, 125, 31, 126, 127, 233, 321}
CgramAddrInputs == {8, 64}
\* graph index: the last valid one and the first invalid one
GraphIndexInputs == {7, 8}
\* graph patterns: eight distinct 5-bit lines, and one with a sixth bit set
GraphInputs == {<<17, 10, 4, 31, 1, 2, 8, 16>>, <<0, 0, 0, 32, 0, 0, 0, 0>>}

NoPos == <<0, 0>>
Args(pos, a, n) == [pos |-> pos, a |-> a, n |-> n]

\* no call is being followed step by step
RunIdle == [op |-> "none"]

CalcIdle ==
    [stage |-> "idle", checks |-> FALSE, line |-> "TwoLine", pos |-> NoPos,
     off |-> NoPos, ok |-> TRUE, q |-> NoPos, back_ok |-> TRUE, back |-> NoPos]

Init ==
    /\ rev \in Revisions
    /\ phase = "config"
    /\ state = LcdState_default
    /\ wire = <<>>
    /\ hw = HwReset
    /\ fatal = FALSE
    /\ poll = poll_interval_us
    /\ last = [op |-> "none", args |-> Args(NoPos, "-", 0), pre |-> LcdState_default]
    /\ nops = 0
    /\ calc = CalcIdle
    /\ i2c = I2cSender_new
    /\ run = RunIdle

\* the driver as it stands when a call begins: nothing sent yet by this call
Start == [st |-> state, wire |-> <<>>, hw |-> hw, fatal |-> FALSE, poll |-> poll]

Finish(name, args, M) ==
    /\ state' = M.st
    /\ wire' = M.wire
    /\ hw' = M.hw
    /\ fatal' = M.fatal
    /\ poll' = M.poll
    /\ last' = [op |-> name, args |-> args, pre |-> state]
    /\ UNCHANGED <<rev, calc, i2c, run>>

\* a setter applied to the LcdState before the driver is constructed
ConfigCall(name, args, M) ==
    /\ phase = "config" /\ ~fatal
    /\ Finish(name, args, M)
    /\ UNCHANGED <<phase, nops>>

\* a call on the constructed Lcd
LcdCall(name, args, M) ==
    /\ phase = "ready" /\ ~fatal /\ nops < MaxOps
    /\ Finish(name, args, M)
    /\ nops' = nops + 1
    /\ UNCHANGED phase

Config_set_line_mode ==
    \E line \in LineModes :
        ConfigCall("Config::set_line_mode", Args(NoPos, line, 0),
                   LcdState_set_line_mode(Start, line))

Config_set_font ==
    \E font \in Fonts :
        ConfigCall("Config::set_font", Args(NoPos, font, 0),
                   LcdState_set_font(Start, font))

Config_set_direction ==
    \E dir \in MoveDirections :
        ConfigCall("Config::set_direction", Args(NoPos, dir, 0),
                   [Start EXCEPT !.st.direction = dir])

\* a position on the second line, and one past the end of any line
ConfigPosInputs == {<<5, 1>>, <<80, 0>>}
\* an offset inside the line, and one past the end of any line
ConfigOffsetInputs == {7, 80}

Config_set_cursor_pos ==
    \E pos \in ConfigPosInputs :
        ConfigCall("Config::set_cursor_pos", Args(pos, "-", 0),
                   LcdState_set_cursor_pos(Start, pos))

Config_set_display_offset ==
    \E offset \in ConfigOffsetInputs :
        ConfigCall("Config::set_display_offset", Args(NoPos, "-", offset),
                   LcdState_set_display_offset(Start, offset))

Config_set_ram_type ==
    \E ram_type \in RAMTypes :
        ConfigCall("Config::set_ram_type", Args(NoPos, ram_type, 0),
                   [Start EXCEPT !.st.ram_type = ram_type])

\* Builder::init / Lcd::new
New ==
    /\ phase = "config" /\ ~fatal
    /\ Finish("new", Args(NoPos, "-", 0), Builder_init(Start))
    /\ phase' = "ready"
    /\ UNCHANGED nops

Set_cursor_pos ==
    \E pos \in PosInputs :
        LcdCall("set_cursor_pos", Args(pos, "-", 0), set_cursor_pos(Start, pos))

Set_cgram_addr ==
    \E addr \in CgramAddrInputs :
        LcdCall("set_cgram_addr", Args(NoPos, "-", addr), set_cgram_addr(Start, addr))

Write_u8_to_cur ==
    \E byte \in ByteInputs :
        LcdCall("write_u8_to_cur", Args(NoPos, "-", byte),
                write_u8_to_cur(Start, rev, byte))

Write_char_to_cur ==
    \E ch \in CharInputs :
        LcdCall("write_char_to_cur", Args(NoPos, "-", ch),
                write_char_to_cur(Start, rev, ch))

Read_u8_from_cur ==
    LcdCall("read_u8_from_cur", Args(NoPos, "-", 0), read_u8_from_cur(Start))

Write_byte_to_pos ==
    \E byte \in ByteInputs, pos \in PosInputs :
        LcdCall("write_byte_to_pos", Args(pos, "-", byte),
                write_byte_to_pos(Start, byte, pos))

Read_byte_from_pos ==
    \E pos \in PosInputs :
        LcdCall("read_byte_from_pos", Args(pos, "-", 0), read_byte_from_pos(Start, pos))

Get_cursor_pos ==
    LcdCall("get_cursor_pos", Args(NoPos, "-", 0), get_cursor_pos(Start))

Write_graph_to_cgram ==
    \E index \in GraphIndexInputs, graph_data \in GraphInputs :
        LcdCall("write_graph_to_cgram", Args(NoPos, graph_data, index),
                write_graph_to_cgram(Start, index, graph_data))

Read_graph_from_cgram ==
    \E index \in GraphIndexInputs :
        LcdCall("read_graph_from_cgram", Args(NoPos, "-", index),
                read_graph_from_cgram(Start, index))

Shift_cursor_or_display ==
    \E st \in ShiftTypes, dir \in MoveDirections :
        LcdCall("shift_cursor_or_display", Args(NoPos, dir, IF st = "CursorOnly" THEN 0 ELSE 1),
                shift_cursor_or_display(Start, st, dir))

Offset_cursor_pos ==
    \E offset \in OffsetInputs, checks \in BOOLEAN :
        LcdCall("offset_cursor_pos", Args(offset, "-", 0),
                offset_cursor_pos(Start, offset, checks))

Set_line_mode ==
    \E line \in LineModes :
        LcdCall("set_line_mode", Args(NoPos, line, 0), set_line_mode(Start, line))

Set_font ==
    \E font \in Fonts :
        LcdCall("set_font", Args(NoPos, font, 0), set_font(Start, font))

Set_direction ==
    \E dir \in MoveDirections :
        LcdCall("set_direction", Args(NoPos, dir, 0), set_direction(Start, dir))

\* a short text, and one with a character outside the character table
TextInputs == {<<65, 66>>, <<65, 321>>}
\* the end of the second line, and one past the end of the first
TextPosInputs == {<<39, 1>>, <<40, 0>>}
\* a polling delay other than the one the driver was constructed with
PollIntervalInputs == {50}

Set_display_state ==
    \E display \in States :
        LcdCall("set_display_state", Args(NoPos, display, 0),
                set_display_state(Start, display))

Set_cursor_state ==
    \E cursor \in States :
        LcdCall("set_cursor_state", Args(NoPos, cursor, 0), set_cursor_state(Start, cursor))

Set_cursor_blink_state ==
    \E blink \in States :
        LcdCall("set_cursor_blink_state", Args(NoPos, blink, 0),
                set_cursor_blink_state(Start, blink))

Set_shift_type ==
    \E shift \in ShiftTypes :
        LcdCall("set_shift_type", Args(NoPos, shift, 0), set_shift_type(Start, shift))

Set_poll_interval ==
    \E interval_us \in PollIntervalInputs :
        LcdCall("set_poll_interval", Args(NoPos, "-", interval_us),
                set_poll_interval(Start, interval_us))

Toggle_display == LcdCall("toggle_display", Args(NoPos, "-", 0), toggle_display(Start))

Write_graph_to_cur ==
    \E index \in GraphIndexInputs :
        LcdCall("write_graph_to_cur", Args(NoPos, "-", index),
                write_graph_to_cur(Start, rev, index))

Write_graph_to_pos ==
    \E index \in GraphIndexInputs, pos \in TextPosInputs :
        LcdCall("write_graph_to_pos", Args(pos, "-", index),
                write_graph_to_pos(Start, index, pos))

Write_str_to_cur ==
    \E str \in TextInputs :
        LcdCall("write_str_to_cur", Args(NoPos, str, 0), write_str_to_cur(Start, rev, str))

Write_char_to_pos ==
    \E ch \in {65, 321}, pos \in TextPosInputs :
        LcdCall("write_char_to_pos", Args(pos, "-", ch),
                write_char_to_pos(Start, rev, ch, pos))

Write_str_to_pos ==
    \E str \in TextInputs, pos \in TextPosInputs :
        LcdCall("write_str_to_pos", Args(pos, str, 0),
                write_str_to_pos(Start, rev, str, pos))

Next ==
    \/ Config_set_line_mode
    \/ Config_set_font
    \/ Config_set_direction
    \/ Config_set_cursor_pos
    \/ Config_set_display_offset
    \/ Config_set_ram_type
    \/ New
    \/ Set_display_state
    \/ Set_cursor_state
    \/ Set_cursor_blink_state
    \/ Set_shift_type
    \/ Set_poll_interval
    \/ Toggle_display
    \/ Write_graph_to_cur
    \/ Write_graph_to_pos
    \/ Write_str_to_cur
    \/ Write_char_to_pos
    \/ Write_str_to_pos
    \/ Set_cursor_pos
    \/ Set_cgram_addr
    \/ Write_u8_to_cur
    \/ Write_char_to_cur
    \/ Read_u8_from_cur
    \/ Write_byte_to_pos
    \/ Read_byte_from_pos
    \/ Get_cursor_pos
    \/ Write_graph_to_cgram
    \/ Read_graph_from_cgram
    \/ Shift_cursor_or_display
    \/ Offset_cursor_pos
    \/ Set_line_mode
    \/ Set_font
    \/ Set_direction

Spec == Init /\ [][Next]_vars

(***************************************************************************)
(* calculate_pos_by_offset as a pure function: every line mode, every      *)
(* in-bounds position, every offset up to one past the permitted range,    *)
(* both builds; then the negated offset applied to the result.             *)
(***************************************************************************)
CalcPositions(line) ==
    {<<x, y>> : x \in 0..(LineCapacityOf(line) - 1),
                y \in 0..(IF line = "OneLine" THEN 0 ELSE 1)}

CalcOffsets(line) ==
    {<<dx, dy>> : dx \in (-LineCapacityOf(line))..LineCapacityOf(line),
                  dy \in (-2..2) \cup {-128}}

InitCalc ==
    /\ rev = "lcd"
    /\ phase = "calc"
    /\ state = LcdState_default
    /\ wire = <<>>
    /\ hw = HwReset
    /\ fatal = FALSE
    /\ poll = poll_interval_us
    /\ last = [op |-> "none", args |-> Args(NoPos, "-", 0), pre |-> LcdState_default]
    /\ nops = 0
    /\ i2c = I2cSender_new
    /\ run = RunIdle
    /\ \E line \in LineModes, checks \in BOOLEAN :
         \E pos \in CalcPositions(line) :
            calc = [CalcIdle EXCEPT !.stage = "input", !.checks = checks,
                                    !.line = line, !.pos = pos]

\* q = calculate_pos_by_offset(pos, off)
Calc_forward ==
    /\ calc.stage = "input"
    /\ \E off \in CalcOffsets(calc.line) :
         LET r == calculate_pos_by_offset(calc.line, calc.pos, off, calc.checks)
         IN  calc' = [calc EXCEPT !.stage = "forward", !.off = off,
                                  !.ok = r.ok, !.q = r.pos]
    /\ UNCHANGED <<rev, phase, state, wire, hw, fatal, last, nops, i2c, run, poll>>

\* back = calculate_pos_by_offset(q, -off), when q was returned and is in bounds
Calc_back ==
    /\ calc.stage = "forward"
    /\ calc.ok
    /\ calc.q \in CalcPositions(calc.line)
    /\ LET r == calculate_pos_by_offset(
                    calc.line, calc.q, <<-calc.off[1], -calc.off[2]>>, calc.checks)
       IN  calc' = [calc EXCEPT !.stage = "back", !.back_ok = r.ok, !.back = r.pos]
    /\ UNCHANGED <<rev, phase, state, wire, hw, fatal, last, nops, i2c, run, poll>>

NextCalc == Calc_forward \/ Calc_back

SpecCalc == InitCalc /\ [][NextCalc]_vars

(***************************************************************************)
(* Properties.  last records the most recent call: its name, its           *)
(* arguments and the LcdState it started from; wire holds what that call   *)
(* sent.                                                                   *)
(***************************************************************************)

\* C1: after any sequence of successful calls on the constructed driver,
\* while ram_type is DDRam, the shadow cursor_pos is where the controller's
\* address counter points (address = row * 0x40 + column) and the shadow
\* display_offset equals the controller's display shift.
C1_ShadowMatchesController ==
    (phase = "ready" /\ ~fatal /\ state.ram_type = "DDRam") =>
        /\ hw.ram = "DDRam"
        /\ hw.ac = state.cursor_pos[2] * 64 + state.cursor_pos[1]
        /\ hw.shift = state.display_offset

\* C2: two lines, left to right: a successful write_u8_to_cur at (x, y)
\* leaves the cursor at (x+1, y) for x < 39, at (0, 1) from (39, 0) and at
\* (0, 0) from (39, 1).
C2_WriteStepLeftToRight ==
    (/\ last.op = "write_u8_to_cur" /\ ~fatal
     /\ last.pre.line = "TwoLine" /\ last.pre.direction = "LeftToRight") =>
        LET x == last.pre.cursor_pos[1]
            y == last.pre.cursor_pos[2]
        IN  state.cursor_pos = IF x < 39 THEN <<x + 1, y>>
                               ELSE IF y = 0 THEN <<0, 1>> ELSE <<0, 0>>

\* C3: two lines, right to left: a successful write_u8_to_cur at (x, y)
\* leaves the cursor at (x-1, y) for x > 0, at (39, 1) from (0, 0) and at
\* (39, 0) from (0, 1).
C3_WriteStepRightToLeft ==
    (/\ last.op = "write_u8_to_cur" /\ ~fatal
     /\ last.pre.line = "TwoLine" /\ last.pre.direction = "RightToLeft") =>
        LET x == last.pre.cursor_pos[1]
            y == last.pre.cursor_pos[2]
        IN  state.cursor_pos = IF x > 0 THEN <<x - 1, y>>
                               ELSE IF y = 0 THEN <<39, 1>> ELSE <<39, 0>>

\* a right-to-left write at (0, 1) that wrapped to (39, 0)
C3_Witness ==
    /\ last.op = "write_u8_to_cur" /\ ~fatal
    /\ last.pre.line = "TwoLine" /\ last.pre.direction = "RightToLeft"
    /\ last.pre.cursor_pos = <<0, 1>>
    /\ state.cursor_pos = <<39, 0>>

\* C4: a successful read_u8_from_cur in DDRam steps the shadow cursor one
\* cell in the stored direction, by the wrap rule of a write.
C4_ReadStepsCursor ==
    (last.op = "read_u8_from_cur" /\ ~fatal /\ last.pre.ram_type = "DDRam") =>
        state.cursor_pos =
            write_raw_pos(last.pre.line, last.pre.cursor_pos, last.pre.direction)

\* C5: read_byte_from_pos and write_byte_to_pos return with the shadow
\* cursor where it was before the call.
C5_PositionalAccessRestoresCursor ==
    (/\ last.op \in {"read_byte_from_pos", "write_byte_to_pos"} /\ ~fatal
     /\ last.pre.ram_type = "DDRam") =>
        /\ state.ram_type = "DDRam"
        /\ state.cursor_pos = last.pre.cursor_pos

\* C6: in every state the cursor column is below the line capacity, the
\* row is 0 with one line and below 2 with two, and display_offset is below
\* the line capacity.
C6_PositionsInBounds ==
    /\ state.cursor_pos[1] \in 0..(get_line_capacity(state) - 1)
    /\ state.cursor_pos[2] \in 0..(IF state.line = "OneLine" THEN 0 ELSE 1)
    /\ state.display_offset \in 0..(get_line_capacity(state) - 1)

\* a call that tried to put the cursor on column 40 and was refused, the
\* cursor staying where it was
C6_Witness ==
    /\ last.op \in {"set_cursor_pos", "write_byte_to_pos", "read_byte_from_pos"}
    /\ last.args.pos = <<40, 0>>
    /\ fatal
    /\ state.cursor_pos = last.pre.cursor_pos

\* C7: the pair (line mode, font) is never (TwoLine, Font5x11); set_font(
\* Font5x11) while the line mode is TwoLine, and set_line_mode(TwoLine)
\* while the font is Font5x11, are fatal, change no field and send nothing,
\* on the configuration and on the driver alike.  No reachable state has
\* the font Font5x11, so the last conjunct applies set_line_mode(TwoLine) to
\* the current state with the font replaced by Font5x11.
C7_NoTwoLineFont5x11 ==
    /\ ~(state.line = "TwoLine" /\ state.font = "Font5x11")
    /\ (/\ last.op \in {"set_font", "Config::set_font"}
        /\ last.args.a = "Font5x11" /\ last.pre.line = "TwoLine") =>
            (fatal /\ wire = <<>> /\ state = last.pre)
    /\ (/\ last.op \in {"set_line_mode", "Config::set_line_mode"}
        /\ last.args.a = "TwoLine" /\ last.pre.font = "Font5x11") =>
            (fatal /\ wire = <<>> /\ state = last.pre)
    /\ LET M0 == [Start EXCEPT !.st.font = "Font5x11"]
            M == set_line_mode(M0, "TwoLine")
        IN  M.fatal /\ M.wire = <<>> /\ M.st = M0.st

\* set_font(Font5x11) called on the driver in TwoLine mode, refused
C7_Witness ==
    /\ last.op = "set_font" /\ last.args.a = "Font5x11"
    /\ last.pre.line = "TwoLine"
    /\ fatal /\ wire = <<>>

\* C8: set_font and set_line_mode succeed whenever the resulting pair is
\* not (TwoLine, Font5x11): the field takes the new value and, on the
\* driver, exactly one FunctionSet with the resulting pair is sent.
C8_ValidCombinationsSucceed ==
    /\ (/\ last.op \in {"set_line_mode", "Config::set_line_mode"}
        /\ ~(last.args.a = "TwoLine" /\ last.pre.font = "Font5x11")) =>
            /\ ~fatal
            /\ state.line = last.args.a
            /\ last.op = "set_line_mode" =>
                 /\ Len(wire) = 1
                 /\ \E w \in DataWidths :
                      wire[1].cmd = Encode(FunctionSet(w, state.line, state.font))
    /\ (/\ last.op \in {"set_font", "Config::set_font"}
        /\ ~(last.pre.line = "TwoLine" /\ last.args.a = "Font5x11")) =>
            /\ ~fatal
            /\ state.font = last.args.a
            /\ last.op = "set_font" =>
                 /\ Len(wire) = 1
                 /\ \E w \in DataWidths :
                      wire[1].cmd = Encode(FunctionSet(w, state.line, state.font))

\* C9: calculate_pos_by_offset(pos, (0, 0)) returns pos, for every
\* in-bounds pos in either line mode.
C9_ZeroOffsetIsIdentity ==
    (calc.stage \in {"forward", "back"} /\ calc.off = <<0, 0>>) =>
        (calc.ok /\ calc.q = calc.pos)

\* the zero offset applied at the last column of the second row
C9_Witness ==
    /\ calc.stage = "forward" /\ calc.off = <<0, 0>>
    /\ calc.line = "TwoLine" /\ calc.pos = <<39, 1>>
    /\ calc.ok /\ calc.q = <<39, 1>>

\* C10: when q = calculate_pos_by_offset(pos, (dx, dy)) is returned and in
\* bounds, calculate_pos_by_offset(q, (-dx, -dy)) returns pos.
C10_OffsetRoundTrip ==
    (calc.stage = "back") => (calc.back_ok /\ calc.back = calc.pos)

(***************************************************************************)
(* Initialization on its own: every setter of the configuration, in any    *)
(* order, then Builder::init / Lcd::new.                                   *)
(***************************************************************************)
Config_set_data_width ==
    \E data_width \in DataWidths :
        ConfigCall("Config::set_data_width", Args(NoPos, data_width, 0),
                   [Start EXCEPT !.st.data_width = data_width])

Config_set_display_state ==
    \E display \in States :
        ConfigCall("Config::set_display_state", Args(NoPos, display, 0),
                   [Start EXCEPT !.st.display_on = display])

Config_set_cursor_state ==
    \E cursor \in States :
        ConfigCall("Config::set_cursor_state", Args(NoPos, cursor, 0),
                   [Start EXCEPT !.st.cursor_on = cursor])

Config_set_cursor_blink ==
    \E blink \in States :
        ConfigCall("Config::set_cursor_blink", Args(NoPos, blink, 0),
                   [Start EXCEPT !.st.cursor_blink = blink])

Config_set_shift_type ==
    \E shift \in ShiftTypes :
        ConfigCall("Config::set_shift_type", Args(NoPos, shift, 0),
                   [Start EXCEPT !.st.shift_type = shift])

Config_set_backlight ==
    \E backlight \in States :
        ConfigCall("Config::set_backlight", Args(NoPos, backlight, 0),
                   [Start EXCEPT !.st.backlight = backlight])

NextInit ==
    \/ Config_set_line_mode
    \/ Config_set_font
    \/ Config_set_direction
    \/ Config_set_data_width
    \/ Config_set_display_state
    \/ Config_set_cursor_state
    \/ Config_set_cursor_blink
    \/ Config_set_shift_type
    \/ Config_set_backlight
    \/ Config_set_cursor_pos
    \/ Config_set_display_offset
    \/ Config_set_ram_type
    \/ New

SpecInit == Init /\ [][NextInit]_vars

\* C11: initialization sends, and does nothing else than: with 4-bit data
\* width HalfFunctionSet and FunctionSet(Bit4, line, font) twice, with 8-bit
\* data width FunctionSet(Bit8, line, font) twice, each after a fixed delay;
\* then DisplayOnOff(display, cursor, blink), ClearDisplay and
\* EntryModeSet(direction, shift type), each after busy-flag polling; and
\* last the configured backlight state is pushed to the transport.
C11_InitSequence ==
    (last.op = "new") =>
        LET s == last.pre
            fs == Encode(FunctionSet(s.data_width, s.line, s.font))
            head == IF s.data_width = "Bit4"
                    THEN << <<Encode(HalfFunctionSet), "delay">>,
                            <<fs, "delay">>, <<fs, "delay">> >>
                    ELSE << <<fs, "delay">>, <<fs, "delay">> >>
            tail == << <<Encode(DisplayOnOff(s.display_on, s.cursor_on, s.cursor_blink)),
                         "poll">>,
                       <<Encode(ClearDisplay), "poll">>,
                       <<Encode(EntryModeSet(s.direction, s.shift_type)), "poll">>,
                       <<Command("Backlight", s.backlight, 0, 0), "backlight">> >>
        IN  /\ ~fatal
            /\ [i \in 1..Len(wire) |-> <<wire[i].cmd, wire[i].how>>] = head \o tail

\* an 8-bit initialization with the display configured off and the
\* backlight off: six commands, then the backlight push
C11_Witness ==
    /\ last.op = "new" /\ ~fatal
    /\ last.pre.data_width = "Bit8"
    /\ last.pre.display_on = "Off" /\ last.pre.backlight = "Off"
    /\ Len(wire) = 6
    /\ wire[1].cmd.data = 56
    /\ wire[6].how = "backlight"

(***************************************************************************)
(* An I2cSender on its own, handed arbitrary commands.                     *)
(***************************************************************************)
\* the encoder's commands and the malformed ones next to them
I2cCommandInputs ==
    {Encode(HalfFunctionSet), Command("Data", "Write", 4, 2),
     Command("Command", "Write", 4, 3), Command("Command", "Read", 4, 2),
     Encode(FunctionSet("Bit4", "TwoLine", "Font5x8")),
     Encode(FunctionSet("Bit8", "TwoLine", "Font5x8")),
     Encode(FunctionSet("Bit8", "OneLine", "Font5x11")),
     Encode(ClearDisplay), Encode(SetDDRAM(48)), Encode(WriteDataToRAM(65)),
     Encode(WriteDataToRAM(48)), Encode(ReadBusyFlagAndAddress),
     Encode(ReadDataFromRAM)}

I2c_send ==
    /\ ~i2c.fatal /\ i2c.n < MaxSends
    /\ \E command \in I2cCommandInputs :
         i2c' = [I2cSender_send(i2c, command) EXCEPT
                    !.n = i2c.n + 1, !.cmd = command,
                    !.was_first = i2c.first_command]
    /\ UNCHANGED <<rev, phase, state, wire, hw, fatal, last, nops, calc, run, poll>>

NextI2c == I2c_send

SpecI2c == Init /\ [][NextI2c]_vars

\* the checks of a send, on the state after it
C12_SendChecks ==
    /\ (i2c.n > 0 /\ i2c.was_first) =>
          (~i2c.fatal <=> i2c.cmd = Command("Command", "Write", 4, 2))
    /\ (i2c.n > 0 /\ i2c.was_first /\ (i2c.cmd.bits = 8 \/ i2c.cmd.rw = "Read")) =>
          i2c.fatal
    /\ (i2c.n > 0 /\ ~i2c.was_first /\ i2c.cmd.bits = 4) => i2c.fatal
    /\ (/\ i2c.n > 0 /\ ~i2c.was_first
        /\ i2c.cmd.rs = "Command" /\ i2c.cmd.rw = "Write" /\ i2c.cmd.bits = 8
        /\ i2c.cmd.data \div 16 = 3) => i2c.fatal
    /\ i2c.first_command <=> (i2c.bus = <<>>)

\* C12: on a fresh I2cSender the first send succeeds only for the 4-bit
\* HalfFunctionSet write (an 8-bit payload or a read is fatal); afterwards a
\* 4-bit payload is fatal and so is a command write whose high nibble is
\* 0011; first_command is true exactly until the first successful send and
\* never returns to true.
C12_FirstCommand ==
    /\ []C12_SendChecks
    /\ [][/\ (~i2c.first_command => ~i2c'.first_command)
          /\ (i2c.first_command /\ ~i2c'.first_command) =>
                (i2c'.cmd = Command("Command", "Write", 4, 2) /\ ~i2c'.fatal)]_vars

\* a second command accepted after the half command, then an 8-bit-width
\* FunctionSet refused
C12_Witness ==
    /\ i2c.n = 3 /\ i2c.fatal /\ ~i2c.first_command
    /\ Len(i2c.bus) = 2
    /\ i2c.cmd = Encode(FunctionSet("Bit8", "TwoLine", "Font5x8"))

\* the calls that address DDRAM: set_cursor_pos and those that call it
\* before anything can fail
DdramAddressingCalls ==
    {"set_cursor_pos", "write_byte_to_pos", "write_char_to_pos", "write_str_to_pos",
     "write_graph_to_pos"}

\* the state after a call, against the RAM space before it
C13_RamTypeChecks ==
    /\ (last.op = "set_cursor_pos" /\ ~fatal) => state.ram_type = "DDRam"
    /\ (/\ last.op \in {"set_cgram_addr", "write_graph_to_cgram", "read_graph_from_cgram"}
        /\ ~fatal) => state.ram_type = "CGRam"
    /\ (/\ last.op \in {"write_u8_to_cur", "write_char_to_cur", "get_cursor_pos"}
        /\ last.pre.ram_type = "CGRam") =>
            (fatal /\ wire = <<>> /\ state = last.pre)
    /\ (/\ last.op \in {"write_u8_to_cur", "write_char_to_cur", "get_cursor_pos"}
        /\ last.pre.ram_type = "DDRam" /\ phase = "ready") => ~fatal

\* C13: set_cursor_pos sets ram_type to DDRam; set_cgram_addr,
\* write_graph_to_cgram and read_graph_from_cgram set it to CGRam; while it
\* is CGRam, write_u8_to_cur, write_char_to_cur and get_cursor_pos are fatal;
\* and the ram_type of a constructed Lcd goes back from CGRam to DDRam only
\* in a DDRAM-addressing call (a Config chooses the ram_type the Lcd starts
\* with, CGRam included).
C13_RamTypeSwitching ==
    /\ []C13_RamTypeChecks
    /\ [][(phase = "ready" /\ state.ram_type = "CGRam" /\ state'.ram_type = "DDRam") =>
              last'.op \in DdramAddressingCalls]_vars

\* in CGRam, a write at the cursor was refused; before that the RAM space had
\* been switched by a graph write
C13_Witness ==
    /\ last.op = "write_u8_to_cur" /\ last.pre.ram_type = "CGRam" /\ fatal
    /\ hw.ram = "CGRam" /\ hw.cg[56] = 17

\* C14: write_graph_to_cgram(index, g) called while direction is
\* RightToLeft returns with direction RightToLeft, in the LcdState and in the
\* controller; it sends EntryModeSet(LeftToRight), SetCGRAM(index * 8), the
\* eight lines in input order and the restoring EntryModeSet(RightToLeft),
\* so that CGRAM[index * 8 + i] = g[i] for i = 0..7.
C14_GraphWriteDirection ==
    (/\ last.op = "write_graph_to_cgram" /\ ~fatal
     /\ last.pre.direction = "RightToLeft") =>
        LET index == last.args.n
            g == last.args.a
            st == last.pre.shift_type
        IN  /\ state.direction = "RightToLeft"
            /\ hw.id = 0
            /\ [i \in 1..Len(wire) |-> wire[i].cmd] =
                   <<Encode(EntryModeSet("LeftToRight", st)), Encode(SetCGRAM(index * 8))>>
                   \o [i \in 1..8 |-> Encode(WriteDataToRAM(g[i]))]
                   \o <<Encode(EntryModeSet("RightToLeft", st))>>
            /\ \A i \in 0..7 : hw.cg[index * 8 + i] = g[i + 1]

\* graph 7 written while the direction is RightToLeft: its first line is at
\* CGRAM 56 and its last at CGRAM 63
C14_Witness ==
    /\ last.op = "write_graph_to_cgram" /\ ~fatal
    /\ last.pre.direction = "RightToLeft"
    /\ last.args.n = 7
    /\ hw.cg[56] = 17 /\ hw.cg[63] = 16
    /\ Len(wire) = 11

(***************************************************************************)
(* Window shifts on their own: the display and cursor flags are configured,*)
(* the driver is constructed, and shift_display_to_pos is called from the  *)
(* offsets earlier calls left; set_cgram_addr leaves the DDRAM in between. *)
(***************************************************************************)
\* both ends of the line, the middle and its neighbours (capacity 40)
\* offsets of the line, and one past its end (target_pos is any u8)
TargetInputs == {0, 1, 19, 20, 21, 39, 41}

StepDelayInputs == {250}

ShiftCall(name, args, M) ==
    /\ phase = "ready" /\ ~fatal /\ nops < MaxShifts
    /\ Finish(name, args, M)
    /\ nops' = nops + 1
    /\ UNCHANGED phase

\* checks is whether the build has overflow checks; it is drawn only where
\* it can matter, for a target past the end of the line in the revision
\* that does not assert the target
Shift_display_to_pos ==
    \E target_pos \in TargetInputs, ms \in MoveStyles,
       display_state_when_shift \in States, delay_us_per_step \in StepDelayInputs,
       checks \in BOOLEAN :
        /\ (target_pos < get_line_capacity(state) \/ rev = "impl_lcd_api") => checks
        /\ ShiftCall("shift_display_to_pos",
                     Args(NoPos, [ms |-> ms, display |-> display_state_when_shift,
                                  delay |-> delay_us_per_step, checks |-> checks],
                          target_pos),
                     shift_display_to_pos(Start, rev, target_pos, ms, display_state_when_shift,
                                          delay_us_per_step, checks))

Shift_set_cgram_addr ==
    \E addr \in CgramAddrInputs :
        ShiftCall("set_cgram_addr", Args(NoPos, "-", addr), set_cgram_addr(Start, addr))

\* a wait, and the wait of 0 that the older revision leaves out
WaitInputs == {0, 250}

Typewriter_write ==
    \E str \in {<<65, 66>>}, delay_us \in WaitInputs :
        ShiftCall("typewriter_write", Args(NoPos, str, delay_us),
                  typewriter_write(Start, rev, str, delay_us))

Delay_ms == \E ms \in {0, 1} : ShiftCall("delay_ms", Args(NoPos, "-", ms), Lcd_delay_ms(Start, rev, ms))

Delay_us ==
    \E us \in WaitInputs : ShiftCall("delay_us", Args(NoPos, "-", us), Lcd_delay_us(Start, rev, us))

NextShift ==
    \/ Config_set_display_state
    \/ Config_set_cursor_state
    \/ New
    \/ Shift_display_to_pos
    \/ Shift_set_cgram_addr
    \/ Typewriter_write
    \/ Delay_ms
    \/ Delay_us

SpecShift == Init /\ [][NextShift]_vars

\* the entries of the call's log that are CursorOrDisplayShift commands
ShiftEntries ==
    {i \in 1..Len(wire) : /\ wire[i].cmd.rs = "Command" /\ wire[i].cmd.rw = "Write"
                          /\ wire[i].cmd.bits = 8 /\ wire[i].cmd.data \in 16..31}

\* the entries of the call's log that are waits of the delayer
SleepEntries == {i \in 1..Len(wire) : wire[i].how = "sleep"}

\* the controller's flag for a State
FlagOf(st) == IF st = "On" THEN 1 ELSE 0

MinOf(a, b) == IF a <= b THEN a ELSE b

\* C15: for an offset b and a target t below the line capacity and each move
\* style, a shift_display_to_pos that returns has sent exactly `distance`
\* CursorOrDisplayShift(CursorAndDisplay, direction) commands (b - t mod
\* capacity leftwards for ForceMoveLeft, t - b mod capacity rightwards for
\* ForceMoveRight, |t - b| for NoCrossBoundary, the smaller of the two for
\* Shortest), each directly preceded by one wait of the per-step delay, and
\* display_offset = t; with b = t nothing is sent and the state is unchanged.
C15_ShiftDisplayToPos ==
    (/\ last.op = "shift_display_to_pos" /\ ~fatal
     /\ last.args.n < get_line_capacity(last.pre)) =>
        LET cap == get_line_capacity(last.pre)
            b == last.pre.display_offset
            t == last.args.n
            ms == last.args.a.ms
            left == (b - t) % cap
            right == (t - b) % cap
            distance == CASE ms = "ForceMoveLeft" -> left
                          [] ms = "ForceMoveRight" -> right
                          [] ms = "NoCrossBoundary" -> Abs(t - b)
                          [] ms = "Shortest" -> MinOf(left, right)
        IN  IF b = t
            THEN wire = <<>> /\ state = last.pre
            ELSE /\ state.display_offset = t
                 /\ Cardinality(ShiftEntries) = distance
                 /\ Cardinality(SleepEntries) = distance
                 /\ \E d \in MoveDirections :
                      \A i \in ShiftEntries :
                         wire[i].cmd = Encode(CursorOrDisplayShift("CursorAndDisplay", d))
                 /\ \A i \in ShiftEntries :
                      /\ i - 1 \in SleepEntries
                      /\ wire[i - 1].us = last.args.a.delay

\* ForceMoveLeft from offset 1 to offset 20: 21 steps across the boundary
C15_Witness ==
    /\ last.op = "shift_display_to_pos" /\ ~fatal
    /\ last.args.a.ms = "ForceMoveLeft"
    /\ last.pre.display_offset = 1 /\ last.args.n = 20
    /\ Cardinality(ShiftEntries) = 21
    /\ state.display_offset = 20

\* C16: with MoveStyle::Shortest the number of single-step shifts sent is
\* min((t - b) mod capacity, (b - t) mod capacity), hence at most capacity / 2;
\* from offset 0 to offset 39 with capacity 40 it is one RightToLeft step.
C16_ShortestDistance ==
    (/\ last.op = "shift_display_to_pos" /\ ~fatal
     /\ last.args.a.ms = "Shortest"
     /\ last.args.n < get_line_capacity(last.pre)) =>
        LET cap == get_line_capacity(last.pre)
            b == last.pre.display_offset
            t == last.args.n
        IN  /\ Cardinality(ShiftEntries) = MinOf((t - b) % cap, (b - t) % cap)
            /\ Cardinality(ShiftEntries) <= cap \div 2
            /\ (b = 0 /\ t = 39 /\ cap = 40) =>
                  /\ Cardinality(ShiftEntries) = 1
                  /\ \A i \in ShiftEntries :
                        wire[i].cmd = Encode(CursorOrDisplayShift("CursorAndDisplay",
                                                                  "RightToLeft"))

\* Shortest from offset 0 to offset 39: one step, the window at 39
C16_Witness ==
    /\ last.op = "shift_display_to_pos" /\ ~fatal
    /\ last.args.a.ms = "Shortest"
    /\ last.pre.display_offset = 0 /\ last.args.n = 39
    /\ Cardinality(ShiftEntries) = 1
    /\ state.display_offset = 39

\* C17: with MoveStyle::Shortest and a target exactly half the line capacity
\* away, capacity / 2 steps are sent, LeftToRight when the target is above
\* the current offset and RightToLeft when it is below.
C17_ShortestTie ==
    (/\ last.op = "shift_display_to_pos" /\ ~fatal
     /\ last.args.a.ms = "Shortest"
     /\ 2 * Abs(last.args.n - last.pre.display_offset) =
            get_line_capacity(last.pre)) =>
        LET cap == get_line_capacity(last.pre)
            b == last.pre.display_offset
            t == last.args.n
            d == IF t > b THEN "LeftToRight" ELSE "RightToLeft"
        IN  /\ Cardinality(ShiftEntries) = cap \div 2
            /\ \A i \in ShiftEntries :
                  wire[i].cmd = Encode(CursorOrDisplayShift("CursorAndDisplay", d))

\* Shortest from offset 20 back to offset 0: twenty RightToLeft steps
C17_Witness ==
    /\ last.op = "shift_display_to_pos" /\ ~fatal
    /\ last.args.a.ms = "Shortest"
    /\ last.pre.display_offset = 20 /\ last.args.n = 0
    /\ Cardinality(ShiftEntries) = 20
    /\ wire[3].cmd = Encode(CursorOrDisplayShift("CursorAndDisplay", "RightToLeft"))
    /\ state.display_offset = 0

\* C18: in a shift_display_to_pos to another offset that returns, every shift
\* command reaches the controller while its display flag is
\* display_state_when_shift; on return display_on, in the LcdState and in the
\* last DisplayOnOff sent, is what it was before the call; cursor_on and
\* cursor_blink, in the LcdState and in the controller, never change.
C18_DisplayStateDuringShift ==
    (/\ last.op = "shift_display_to_pos" /\ ~fatal
     /\ last.args.n # last.pre.display_offset) =>
        /\ \A i \in ShiftEntries : wire[i].at.d = FlagOf(last.args.a.display)
        /\ state.display_on = last.pre.display_on
        /\ wire[Len(wire)].cmd =
               Encode(DisplayOnOff(last.pre.display_on, last.pre.cursor_on,
                                   last.pre.cursor_blink))
        /\ hw.d = FlagOf(last.pre.display_on)
        /\ state.cursor_on = last.pre.cursor_on
        /\ state.cursor_blink = last.pre.cursor_blink
        /\ \A i \in 1..Len(wire) : /\ wire[i].at.c = FlagOf(last.pre.cursor_on)
                                   /\ wire[i].at.b = FlagOf(last.pre.cursor_blink)
        /\ hw.c = FlagOf(last.pre.cursor_on)
        /\ hw.b = FlagOf(last.pre.cursor_blink)

\* a display configured on, cursor off, shifted with the display switched
\* off for the move
C18_Witness ==
    /\ last.op = "shift_display_to_pos" /\ ~fatal
    /\ last.pre.display_on = "On" /\ last.pre.cursor_on = "Off"
    /\ last.args.a.display = "Off"
    /\ ShiftEntries # {}
    /\ \A i \in ShiftEntries : wire[i].at.d = 0
    /\ hw.d = 1 /\ hw.c = 0

(***************************************************************************)
(* The split-flap effect on its own: the cursor flag and the direction are *)
(* configured, the driver is constructed, one call places the cursor (or   *)
(* leaves the DDRAM), and split_flap_write runs once.                      *)
(***************************************************************************)
\* "AB", the two chars next to the start of the scan in descending order,
\* a string with a char past 0x7D, one with a control char, one with a
\* Latin-1 char, one with a char whose low byte is 'A' (U+0141), and the
\* empty string
StrInputs == {<<65, 66>>, <<34, 33>>, <<65, 126>>, <<10, 65>>, <<233>>, <<65, 321>>, <<>>}

MaxFlipCntInputs == {None, Some(0), Some(1), Some(100)}

PerFlipDelayInputs == {100}

PerCharDelayInputs == {None, Some(200)}

\* the corners of the two lines and the column before the end of the first
FlapPosInputs == {<<0, 0>>, <<38, 0>>, <<39, 0>>, <<0, 1>>, <<39, 1>>}

\* the one call between construction and the effect
FlapSetup(name, args, M) ==
    /\ phase = "ready" /\ ~fatal /\ last.op = "new"
    /\ Finish(name, args, M)
    /\ UNCHANGED <<phase, nops>>

Flap_set_cursor_pos ==
    \E pos \in FlapPosInputs :
        FlapSetup("set_cursor_pos", Args(pos, "-", 0), set_cursor_pos(Start, pos))

Flap_set_cgram_addr ==
    \E addr \in CgramAddrInputs :
        FlapSetup("set_cgram_addr", Args(NoPos, "-", addr), set_cgram_addr(Start, addr))

\* the older revision takes max_flip_count as a u8 with 0 for no limit, the
\* None of this call; it has no value for Some(0)
Split_flap_write ==
    /\ phase = "ready" /\ ~fatal
    /\ \E str \in StrInputs, fs \in FlipStyles, max_flip_cnt \in MaxFlipCntInputs,
          per_flip_delay_us \in PerFlipDelayInputs,
          per_char_flip_delay_us \in PerCharDelayInputs, checks \in BOOLEAN :
         /\ rev = "impl_lcd_api" => max_flip_cnt # Some(0)
         /\ Finish("split_flap_write",
                Args(NoPos, [str |-> str, fs |-> fs, max_flip_cnt |-> max_flip_cnt,
                             per_flip |-> per_flip_delay_us,
                             per_char |-> per_char_flip_delay_us, checks |-> checks], 0),
                split_flap_write(Start, rev, str, fs, max_flip_cnt, per_flip_delay_us,
                                 per_char_flip_delay_us, checks))
    /\ phase' = "done"
    /\ UNCHANGED nops

NextFlap ==
    \/ Config_set_cursor_state
    \/ Config_set_direction
    \/ New
    \/ Flap_set_cursor_pos
    \/ Flap_set_cgram_addr
    \/ Split_flap_write

SpecFlap == Init /\ [][NextFlap]_vars

\* the cell i columns past pos in direction dir, the second line following
\* the first and the first following the second
PastBy(line, pos, i, dir) ==
    LET cap == LineCapacityOf(line)
        cells == IF line = "OneLine" THEN cap ELSE 2 * cap
        idx == (pos[2] * cap + pos[1] + (IF dir = "LeftToRight" THEN i ELSE -i)) % cells
    IN  <<idx % cap, idx \div cap>>

\* the DDRAM address of a cell
DdramAddr(pos) == pos[2] * 64 + pos[1]

\* the entries of the call's log that are RAM writes
RamWrites ==
    {i \in 1..Len(wire) : wire[i].cmd.rs = "Data" /\ wire[i].cmd.rw = "Write"}

\* C19: a Simultaneous split_flap_write of a non-empty string s with no
\* max-flip-count, from the cursor p, that returns: the first byte written
\* is 0x20, the cell i columns past p in the configured direction holds s[i]
\* for every i, and the cursor is |s| columns past p, lines wrapping.
C19_SimultaneousResult ==
    (/\ last.op = "split_flap_write" /\ ~fatal
     /\ last.args.a.fs = "Simultaneous" /\ last.args.a.max_flip_cnt = None
     /\ Len(last.args.a.str) > 0) =>
        LET s == last.args.a.str
            p == last.pre.cursor_pos
            line == last.pre.line
            dir == last.pre.direction
        IN  /\ RamWrites # {}
            /\ \A i \in RamWrites :
                  (\A j \in RamWrites : i <= j) => wire[i].cmd.data = 32
            /\ \A i \in 0..(Len(s) - 1) :
                  hw.dd[DdramAddr(PastBy(line, p, i, dir))] = s[i + 1]
            /\ state.cursor_pos = PastBy(line, p, Len(s), dir)

\* C20: a split_flap_write that returns, in either flip style, leaves
\* cursor_on as it was before the call, in the LcdState and in the
\* controller (the last DisplayOnOff sent), and every RAM write of the
\* effect reaches the controller while its cursor flag is off.
C20_CursorOffDuringFlap ==
    (last.op = "split_flap_write" /\ ~fatal) =>
        /\ state.cursor_on = last.pre.cursor_on
        /\ hw.c = FlagOf(last.pre.cursor_on)
        /\ \A i \in RamWrites : wire[i].at.c = 0

\* a Sequential effect with the cursor configured on: the bytes were
\* written with the cursor flag off and the flag is on again
C20_Witness ==
    /\ last.op = "split_flap_write" /\ ~fatal
    /\ last.args.a.fs = "Sequential"
    /\ last.pre.cursor_on = "On"
    /\ RamWrites # {}
    /\ \A i \in RamWrites : wire[i].at.c = 0
    /\ state.cursor_on = "On" /\ hw.c = 1


\* the chars of the string handed to split_flap_write are all in 0x20..=0x7D
FlapCharsInRange == \A i \in 1..Len(last.args.a.str) : last.args.a.str[i] \in 32..125

\* C21: split_flap_write is fatal, in both flip styles, when a char of the
\* string is outside 0x20..=0x7D, and nothing has been sent; it is fatal in
\* Sequential style when no per-char delay is given, before any RAM write.
\* With the chars in range and, for Sequential, a delay given, neither check
\* stops the call: from the DDRAM, with a non-empty string and no
\* max-flip-count, a Sequential call returns and a Simultaneous call returns
\* or has started to write.
C21_FlapChecks ==
    (last.op = "split_flap_write") =>
        /\ ~FlapCharsInRange => (fatal /\ wire = <<>>)
        /\ (/\ FlapCharsInRange /\ last.args.a.fs = "Sequential"
            /\ last.args.a.per_char = None) => (fatal /\ RamWrites = {})
        /\ (/\ FlapCharsInRange /\ Len(last.args.a.str) > 0
            /\ (last.args.a.fs = "Sequential" => last.args.a.per_char # None)
            /\ last.pre.ram_type = "DDRam"
            /\ last.args.a.max_flip_cnt = None) =>
               IF last.args.a.fs = "Sequential" THEN ~fatal
               ELSE ~fatal \/ RamWrites # {}

\* a string with U+0141, whose low byte is 'A', is refused
C21_Witness ==
    /\ last.op = "split_flap_write" /\ fatal
    /\ last.args.a.str = <<65, 321>>
    /\ wire = <<>>
    /\ state = last.pre


(***************************************************************************)
(* full_display_blink followed round by round: the call starts, each round *)
(* waits and toggles, and the call returns when its rounds are used up; a  *)
(* count of 0 has no end.                                                  *)
(***************************************************************************)
\* 0, small counts, and counts from 2^31 on
CountInputs == {U32(0, 0), U32(0, 1), U32(0, 2), U32(1, 0), U32(1, 1)}

IntervalInputs == {500}

Blink_call ==
    /\ phase = "ready" /\ ~fatal /\ run = RunIdle
    /\ \E count \in CountInputs, interval_us \in IntervalInputs, checks \in BOOLEAN :
         LET endless == count = U32(0, 0)
             rounds == blink_rounds(count, checks)
         IN  /\ fatal' = (~endless /\ ~rounds.ok)
             /\ run' = [op |-> "full_display_blink", endless |-> endless,
                        left |-> rounds.v, done |-> 0, interval_us |-> interval_us,
                        returned |-> FALSE]
             /\ last' = [op |-> "full_display_blink",
                         args |-> Args(NoPos, [count |-> count,
                                               interval_us |-> interval_us,
                                               checks |-> checks], 0),
                         pre |-> state]
    /\ wire' = <<>>
    /\ UNCHANGED <<rev, phase, state, hw, nops, calc, i2c, poll>>

Blink_round ==
    /\ run.op = "full_display_blink" /\ ~fatal /\ ~run.returned
    /\ IF run.endless THEN run.done < MaxRounds ELSE run.left > 0
    /\ LET M == blink_step([st |-> state, wire |-> wire, hw |-> hw, fatal |-> FALSE,
                            poll |-> poll],
                           rev, run.interval_us)
       IN  /\ state' = M.st
           /\ wire' = M.wire
           /\ hw' = M.hw
           /\ fatal' = M.fatal
    /\ run' = [run EXCEPT !.left = IF run.endless THEN @ ELSE @ - 1, !.done = @ + 1]
    /\ UNCHANGED <<rev, phase, last, nops, calc, i2c, poll>>

Blink_return ==
    /\ run.op = "full_display_blink" /\ ~fatal /\ ~run.returned
    /\ ~run.endless /\ run.left = 0
    /\ run' = [run EXCEPT !.returned = TRUE]
    /\ UNCHANGED <<rev, phase, state, wire, hw, fatal, last, nops, calc, i2c, poll>>

NextBlink ==
    \/ Config_set_display_state
    \/ Config_set_cursor_state
    \/ New
    \/ Blink_call
    \/ Blink_round
    \/ Blink_return

SpecBlink == Init /\ [][NextBlink]_vars

\* the entries of the call's log that are DisplayOnOff commands
ToggleEntries ==
    {i \in 1..Len(wire) : /\ wire[i].cmd.rs = "Command" /\ wire[i].cmd.rw = "Write"
                          /\ wire[i].cmd.bits = 8 /\ wire[i].cmd.data \in 8..15}

\* C22: full_display_blink(count, interval) with count > 0 returns having
\* sent exactly 2 * count DisplayOnOff commands, each inverting the display
\* flag and each directly preceded by one wait of interval, with display_on
\* what it was before the call; with count = 0 it never returns.  (A log
\* holds fewer than 2^31 entries, so a count from 2^31 on is never matched.)
C22_FullDisplayBlink ==
    (run.op = "full_display_blink") =>
        LET count == last.args.a.count
        IN  /\ (count = U32(0, 0)) => ~run.returned
            /\ (count # U32(0, 0) /\ run.returned) =>
                  /\ count.hi = 0
                  /\ Cardinality(ToggleEntries) = 2 * count.lo
                  /\ Cardinality(SleepEntries) = 2 * count.lo
                  /\ \A i \in ToggleEntries :
                        /\ i - 1 \in SleepEntries
                        /\ wire[i - 1].us = last.args.a.interval_us
                        /\ check_bit(wire[i].cmd.data, 2) = (wire[i].at.d = 0)
                  /\ state.display_on = last.pre.display_on
                  /\ hw.d = FlagOf(last.pre.display_on)


\* the entries of the call's log that are SetDDRAM commands, and those that
\* are SetCGRAM commands
SetDdramEntries ==
    {i \in 1..Len(wire) : /\ wire[i].cmd.rs = "Command" /\ wire[i].cmd.rw = "Write"
                          /\ wire[i].cmd.bits = 8 /\ wire[i].cmd.data \in 128..255}

SetCgramEntries ==
    {i \in 1..Len(wire) : /\ wire[i].cmd.rs = "Command" /\ wire[i].cmd.rw = "Write"
                          /\ wire[i].cmd.bits = 8 /\ wire[i].cmd.data \in 64..127}

\* a position inside the geometry the call started with
PosInBounds(pos) ==
    /\ pos[1] < get_line_capacity(last.pre)
    /\ pos[2] < (IF last.pre.line = "OneLine" THEN 1 ELSE 2)

\* C23: every SetDDRAM command sent carries row * 0x40 + column of an
\* in-bounds position (that of the call's argument in set_cursor_pos), which
\* is below 128, and every SetCGRAM command sent carries the address handed
\* in, below 64 (index * 8 in the graph calls); a call whose position is in
\* bounds, whose address is below 64 or whose graph index is below 8 is not
\* stopped by the encoder.
C23_AddressesInRange ==
    /\ \A i \in SetDdramEntries :
          \E x \in 0..(get_line_capacity(last.pre) - 1), y \in 0..1 :
              /\ PosInBounds(<<x, y>>)
              /\ wire[i].cmd.data = Encode(SetDDRAM(0)).data + y * 64 + x
              /\ y * 64 + x < 128
    /\ (last.op = "set_cursor_pos" /\ PosInBounds(last.args.pos)) =>
          /\ ~fatal
          /\ [i \in 1..Len(wire) |-> wire[i].cmd] =
                 <<Encode(SetDDRAM(last.args.pos[2] * 64 + last.args.pos[1]))>>
    /\ (last.op = "set_cursor_pos" /\ ~PosInBounds(last.args.pos)) =>
          (fatal /\ wire = <<>>)
    /\ (last.op = "set_cgram_addr" /\ last.args.n < 64) =>
          /\ ~fatal
          /\ [i \in 1..Len(wire) |-> wire[i].cmd] = <<Encode(SetCGRAM(last.args.n))>>
    /\ (last.op = "set_cgram_addr" /\ ~(last.args.n < 64)) => (fatal /\ wire = <<>>)
    /\ (last.op \in {"write_graph_to_cgram", "read_graph_from_cgram"}) =>
          /\ \A i \in SetCgramEntries :
                /\ wire[i].cmd = Encode(SetCGRAM(last.args.n * 8))
                /\ last.args.n * 8 < 64
          /\ ~(last.args.n < 8) => (fatal /\ wire = <<>>)
    /\ (last.op = "read_graph_from_cgram" /\ last.args.n < 8) =>
          (~fatal /\ SetCgramEntries # {})
    /\ (/\ last.op = "write_graph_to_cgram" /\ last.args.n < 8
        /\ \A k \in 1..Len(last.args.a) : last.args.a[k] < 32) =>
          (~fatal /\ SetCgramEntries # {})

\* the cursor put on the last cell of the second row: address 0x67
C23_Witness ==
    /\ last.op = "set_cursor_pos" /\ ~fatal
    /\ last.args.pos = <<39, 1>>
    /\ SetDdramEntries = {1}
    /\ wire[1].cmd.data = 231


(***************************************************************************)
(* The encoder as a pure function: an instruction is drawn with its        *)
(* arguments, addresses up to the first one the assertions reject, and is  *)
(* converted.                                                              *)
(***************************************************************************)
EncodeInputs ==
    {ClearDisplay, ReturnHome, HalfFunctionSet}
    \cup {EntryModeSet(dir, st) : dir \in MoveDirections, st \in ShiftTypes}
    \cup {DisplayOnOff(d, c, b) : d \in States, c \in States, b \in States}
    \cup {CursorOrDisplayShift(st, dir) : st \in ShiftTypes, dir \in MoveDirections}
    \cup {FunctionSet(w, l, f) : w \in DataWidths, l \in LineModes, f \in Fonts}
    \cup {SetCGRAM(addr) : addr \in 0..Pow2(6)}
    \cup {SetDDRAM(addr) : addr \in 0..Pow2(7)}

InitEncode ==
    /\ rev = "lcd"
    /\ phase = "encode"
    /\ state = LcdState_default
    /\ wire = <<>>
    /\ hw = HwReset
    /\ fatal = FALSE
    /\ poll = poll_interval_us
    /\ last = [op |-> "none", args |-> Args(NoPos, "-", 0), pre |-> LcdState_default]
    /\ nops = 0
    /\ calc = CalcIdle
    /\ i2c = I2cSender_new
    /\ \E cs \in EncodeInputs :
         run = [op |-> "encode", stage |-> "input", cs |-> cs, out |-> NoCommand]

\* out = Command::from(cs); a failed assertion leaves no command
Encode_from ==
    /\ run.op = "encode" /\ run.stage = "input"
    /\ run' = [run EXCEPT !.stage = IF EncodeOk(run.cs) THEN "done" ELSE "panic",
                          !.out = IF EncodeOk(run.cs) THEN Encode(run.cs) ELSE NoCommand]
    /\ UNCHANGED <<rev, phase, state, wire, hw, fatal, last, nops, calc, i2c, poll>>

NextEncode == Encode_from

SpecEncode == InitEncode /\ [][NextEncode]_vars

\* 1 when the condition holds, 0 when not
BitIf(cond) == IF cond THEN 1 ELSE 0

\* the payload the instruction set gives an instruction
PayloadOf(cs) ==
    CASE cs.op = "ClearDisplay" -> 1
      [] cs.op = "ReturnHome" -> 2
      [] cs.op = "EntryModeSet" ->
            4 + 2 * BitIf(cs.dir = "LeftToRight") + BitIf(cs.st = "CursorAndDisplay")
      [] cs.op = "DisplayOnOff" ->
            8 + 4 * BitIf(cs.display = "On") + 2 * BitIf(cs.cursor = "On")
              + BitIf(cs.cursor_blink = "On")
      [] cs.op = "CursorOrDisplayShift" ->
            16 + 8 * BitIf(cs.st = "CursorAndDisplay") + 4 * BitIf(cs.dir = "LeftToRight")
      [] cs.op = "HalfFunctionSet" -> 2
      [] cs.op = "FunctionSet" ->
            32 + 16 * BitIf(cs.width = "Bit8") + 8 * BitIf(cs.line = "TwoLine")
               + 4 * BitIf(cs.font = "Font5x11")
      [] cs.op = "SetCGRAM" -> 64 + cs.addr
      [] cs.op = "SetDDRAM" -> 128 + cs.addr

\* C24: every instruction the encoder converts becomes a write to the
\* command register whose payload is the instruction's base pattern with its
\* argument bits: ClearDisplay 0x01, ReturnHome 0x02, EntryModeSet 0x04 | D<<1
\* | S, DisplayOnOff 0x08 | display<<2 | cursor<<1 | blink,
\* CursorOrDisplayShift 0x10 | S<<3 | D<<2, HalfFunctionSet the nibble 0b0010,
\* FunctionSet 0x20 | W<<4 | L<<3 | F<<2, SetCGRAM 0x40 + addr, SetDDRAM
\* 0x80 + addr; EntryModeSet(LeftToRight, CursorAndDisplay) is 0x07 and
\* FunctionSet(Bit4, TwoLine, Font5x8) is 0x28.  Only SetCGRAM from 64 on and
\* SetDDRAM from 128 on are not converted.
C24_EncoderLayout ==
    /\ (run.op = "encode" /\ run.stage = "done") =>
          /\ run.out = [rs |-> "Command", rw |-> "Write",
                        bits |-> IF run.cs.op = "HalfFunctionSet" THEN 4 ELSE 8,
                        data |-> PayloadOf(run.cs)]
          /\ (run.cs = EntryModeSet("LeftToRight", "CursorAndDisplay")) => run.out.data = 7
          /\ (run.cs = FunctionSet("Bit4", "TwoLine", "Font5x8")) => run.out.data = 40
    /\ (run.op = "encode" /\ run.stage = "panic") =>
          \/ run.cs.op = "SetCGRAM" /\ run.cs.addr >= 64
          \/ run.cs.op = "SetDDRAM" /\ run.cs.addr >= 128

\* EntryModeSet(LeftToRight, CursorAndDisplay) converted to 0b0000_0111
C24_Witness ==
    /\ run.op = "encode" /\ run.stage = "done"
    /\ run.cs = EntryModeSet("LeftToRight", "CursorAndDisplay")
    /\ run.out.data = 7


\* the entries of the call's log that write data to RAM
DataWriteEntries ==
    {i \in 1..Len(wire) : wire[i].cmd.rs = "Data" /\ wire[i].cmd.rw = "Write"}

\* C25: write_char_to_cur sends the char's own byte as RAM data when the
\* char is ASCII in 0x20..=0x7D and 0xFF for every other char (below 0x20,
\* 0x7E, 0x7F, non-ASCII); called while ram_type is CGRam it is fatal and
\* sends nothing.
C25_CharOutByte ==
    (last.op = "write_char_to_cur") =>
        /\ (last.pre.ram_type = "CGRam") => (fatal /\ wire = <<>>)
        /\ (last.pre.ram_type = "DDRam") =>
              /\ DataWriteEntries = {1}
              /\ wire[1].cmd.bits = 8
              /\ wire[1].cmd.data = IF last.args.n \in 32..125 THEN last.args.n ELSE 255

\* '~' (0x7E) written as the solid block
C25_Witness ==
    /\ last.op = "write_char_to_cur" /\ ~fatal
    /\ last.args.n = 126
    /\ wire[1].cmd = Command("Data", "Write", 8, 255)
    /\ hw.dd[0] = 255


\* C26: in two-line mode, for an in-bounds (x, y) and an offset (dx, dy)
\* with |dx| < 40 and |dy| <= 1, calculate_pos_by_offset returns
\* ((x + dx) mod 40, (y + dy + c) mod 2), c being 1 when x + dx >= 40, -1
\* when x + dx < 0 and 0 otherwise; the result is an in-bounds position.
C26_TwoLineOffset ==
    (/\ calc.stage = "forward" /\ calc.line = "TwoLine"
     /\ Abs(calc.off[1]) < 40 /\ Abs(calc.off[2]) <= 1) =>
        LET sum == calc.pos[1] + calc.off[1]
            c == IF sum >= 40 THEN 1 ELSE IF sum < 0 THEN -1 ELSE 0
        IN  /\ calc.ok
            /\ calc.q = <<sum % 40, (calc.pos[2] + calc.off[2] + c) % 2>>
            /\ calc.q \in CalcPositions("TwoLine")


(***************************************************************************)
(* The data width on its own: it is configured, the driver is constructed, *)
(* and the line mode and the font are set again among other calls.         *)
(***************************************************************************)
NextWidth ==
    \/ Config_set_data_width
    \/ New
    \/ Set_line_mode
    \/ Set_font
    \/ Set_direction
    \/ Set_cursor_pos

SpecWidth == Init /\ [][NextWidth]_vars

\* the entries of the call's log that are FunctionSet commands
FunctionSetEntries ==
    {i \in 1..Len(wire) : /\ wire[i].cmd.rs = "Command" /\ wire[i].cmd.rw = "Write"
                          /\ wire[i].cmd.bits = 8 /\ wire[i].cmd.data \in 32..63}

\* C27: every FunctionSet command that set_line_mode or set_font sends on
\* the constructed driver carries the data width the driver was configured
\* with, so a display initialized 8 bits wide is never told to go 4 bits
\* wide.
C27_FunctionSetWidth ==
    (phase = "ready" /\ last.op \in {"set_line_mode", "set_font"}) =>
        \A i \in FunctionSetEntries :
            check_bit(wire[i].cmd.data, 4) = (last.pre.data_width = "Bit8")


\* C28: in a 4-bit initialization a wait of 40 ms lies between the
\* HalfFunctionSet and the command after it; in an 8-bit initialization a
\* wait of 40 ms lies between the first FunctionSet and the second.  (The
\* wait of a log entry is the one made just before its command is sent.)
C28_InitWait ==
    (last.op = "new" /\ ~fatal) =>
        /\ Len(wire) >= 2
        /\ wire[1].cmd = IF last.pre.data_width = "Bit4" THEN Encode(HalfFunctionSet)
                         ELSE Encode(FunctionSet("Bit8", last.pre.line, last.pre.font))
        /\ wire[2].cmd.bits = 8 /\ wire[2].cmd.data \in 32..63
        /\ wire[2].how = "delay"
        /\ wire[2].us = 40000


(***************************************************************************)
(* wait_and_send followed step by step on a sender of its own: the busy    *)
(* flag is read, a set flag is answered by one delay and another read, a   *)
(* clear one by the command.  The controller is busy after a command until *)
(* it has carried it out; run.busy is its busy flag.                       *)
(***************************************************************************)
WaitCommandInputs == {ClearDisplay, SetDDRAM(67), WriteDataToRAM(65), ReadDataFromRAM}

\* the byte a busy-flag read returns: the flag in bit 7, the address counter
\* below it
HwBusyByte(busy, h) == (IF busy THEN 128 ELSE 0) + h.ac

InitWait ==
    /\ rev = "lcd"
    /\ phase = "wait"
    /\ state = LcdState_default
    /\ wire = <<>>
    /\ hw = HwReset
    /\ fatal = FALSE
    /\ poll = poll_interval_us
    /\ last = [op |-> "none", args |-> Args(NoPos, "-", 0), pre |-> LcdState_default]
    /\ nops = 0
    /\ calc = CalcIdle
    /\ i2c = I2cSender_new
    /\ run = RunIdle

\* wait_and_send(command) is entered; the first call finds the controller
\* busy or idle
Wait_call ==
    /\ run.op = "none" \/ (run.op = "wait_and_send" /\ run.pc = "done")
    /\ ~fatal /\ nops < MaxSends
    /\ \E cs \in WaitCommandInputs, b \in BOOLEAN :
         /\ run.op = "wait_and_send" => b = run.busy
         /\ run' = [op |-> "wait_and_send", pc |-> "check", cs |-> cs, busy |-> b,
                    polls |-> 0]
         /\ last' = [op |-> "wait_and_send", args |-> Args(NoPos, cs, 0), pre |-> state]
    /\ wire' = <<>>
    /\ nops' = nops + 1
    /\ UNCHANGED <<rev, phase, state, hw, fatal, calc, i2c, poll>>

\* check_busy: the busy flag and address are read
Wait_check ==
    /\ run.op = "wait_and_send" /\ run.pc = "check"
    /\ run.busy => run.polls < MaxPolls
    /\ LET busy_state == HwBusyByte(run.busy, hw)
       IN  /\ wire' = Append(wire, [cmd |-> Encode(ReadBusyFlagAndAddress), how |-> "read",
                                    us |-> 0, at |-> HwFlags(hw), ret |-> busy_state])
           /\ run' = [run EXCEPT !.pc = IF check_busy(busy_state) THEN "delay" ELSE "send",
                                 !.polls = @ + 1]
    /\ UNCHANGED <<rev, phase, state, hw, fatal, last, nops, calc, i2c, poll>>

\* the body of the loop of wait_for_idle
Wait_delay ==
    /\ run.op = "wait_and_send" /\ run.pc = "delay"
    /\ wire' = Lcd_delay_us([st |-> state, wire |-> wire, hw |-> hw, fatal |-> FALSE,
                             poll |-> poll], rev, poll).wire
    /\ run' = [run EXCEPT !.pc = "check"]
    /\ UNCHANGED <<rev, phase, state, hw, fatal, last, nops, calc, i2c, poll>>

\* self.send(command); the controller is busy with the command
Wait_send ==
    /\ run.op = "wait_and_send" /\ run.pc = "send"
    /\ LET M == send([st |-> state, wire |-> wire, hw |-> hw, fatal |-> FALSE,
                      poll |-> poll], run.cs, "send", 0)
       IN  /\ wire' = M.wire
           /\ hw' = M.hw
           /\ fatal' = M.fatal
    /\ run' = [run EXCEPT !.pc = "done", !.busy = TRUE]
    /\ UNCHANGED <<rev, phase, state, last, nops, calc, i2c, poll>>

\* the controller has carried out what it was busy with
Hw_idle ==
    /\ run.op = "wait_and_send" /\ run.busy
    /\ run' = [run EXCEPT !.busy = FALSE]
    /\ UNCHANGED <<rev, phase, state, wire, hw, fatal, last, nops, calc, i2c, poll>>

NextWait ==
    \/ Wait_call
    \/ Wait_check
    \/ Wait_delay
    \/ Wait_send
    \/ Hw_idle

\* the sender runs on: a step of wait_and_send that can be taken is taken;
\* and the controller comes to the end of what it is busy with
SpecWait ==
    /\ InitWait /\ [][NextWait]_vars
    /\ WF_vars(Wait_check) /\ WF_vars(Wait_delay) /\ WF_vars(Wait_send)
    /\ WF_vars(Hw_idle)

IsBusyRead(e) == e.how = "read" /\ e.ret >= 128

IsIdleRead(e) == e.how = "read" /\ e.ret < 128

\* the log of a wait_and_send: reads, delays and at most the command
C29_PollingOrder ==
    (run.op = "wait_and_send") =>
        /\ \A i \in 1..Len(wire) :
              /\ wire[i].how \in {"read", "sleep", "send"}
              /\ wire[i].how = "read" =>
                    /\ wire[i].cmd = Encode(ReadBusyFlagAndAddress)
                    /\ i > 1 => (wire[i - 1].how = "sleep" /\ IsBusyRead(wire[i - 2]))
              /\ wire[i].how = "sleep" =>
                    /\ wire[i].us = poll
                    /\ i > 1 /\ IsBusyRead(wire[i - 1])
              /\ wire[i].how = "send" =>
                    /\ wire[i].cmd = Encode(run.cs)
                    /\ i > 1 /\ IsIdleRead(wire[i - 1])
                    /\ i = Len(wire)
              /\ (IsBusyRead(wire[i]) /\ i < Len(wire)) => wire[i + 1].how = "sleep"
              /\ (IsIdleRead(wire[i]) /\ i < Len(wire)) => wire[i + 1].how = "send"
        /\ (run.pc = "done") => (wire # <<>> /\ wire[Len(wire)].how = "send")

\* C29: wait_and_send sends its command only directly after a
\* ReadBusyFlagAndAddress read that returned bit 7 clear; while the reads
\* return bit 7 set it sends only further busy-flag reads, one delay of
\* poll_interval between two reads; and when the controller comes to report
\* idle, the command is sent.
C29_WaitAndSend ==
    /\ []C29_PollingOrder
    /\ (run.op = "wait_and_send" /\ run.pc # "done")
          ~> (run.op = "wait_and_send" /\ run.pc = "done")

\* the command sent after three busy answers, each followed by one delay,
\* and an idle one
C29_Witness ==
    /\ run.op = "wait_and_send" /\ run.pc = "done"
    /\ Len(wire) = 8
    /\ IsBusyRead(wire[5]) /\ wire[6].how = "sleep" /\ IsIdleRead(wire[7])
    /\ wire[8].cmd = Encode(SetDDRAM(67))


IsCommand(e) == e.how # "sleep"

IsDataWrite(e) == e.cmd.rs = "Data" /\ e.cmd.rw = "Write"

IsCursorShift(e) ==
    /\ e.cmd.rs = "Command" /\ e.cmd.rw = "Write" /\ e.cmd.bits = 8
    /\ e.cmd.data \in {16, 20}

\* the commands of the call's log, the waits left out
FlapCommands == SelectSeq(wire, IsCommand)

\* the bytes the call wrote to RAM, in order
FlapBytes ==
    LET S == SelectSeq(wire, IsDataWrite) IN [i \in 1..Len(S) |-> S[i].cmd.data]

\* max(0x20, c - m), and 0x20 when no max-flip-count is given
FlapStart(c, max_flip_cnt) ==
    IF max_flip_cnt = None THEN 32
    ELSE IF c - max_flip_cnt[1] < 32 THEN 32 ELSE c - max_flip_cnt[1]

\* the bytes start..=c of each char of str, one char after the other
RECURSIVE FlapRuns(_, _)
FlapRuns(str, max_flip_cnt) ==
    IF str = <<>> THEN <<>>
    ELSE [i \in 1..(str[1] - FlapStart(str[1], max_flip_cnt) + 1) |->
              FlapStart(str[1], max_flip_cnt) + i - 1]
         \o FlapRuns(Tail(str), max_flip_cnt)

\* C30: a Sequential split_flap_write of chars in 0x20..=0x7D returns, with
\* no 8-bit underflow, having written for each char c the bytes
\* max(0x20, c - m)..=c (from 0x20 when no max-flip-count m is given) in
\* ascending order, every byte of a char to the same cell, and having moved
\* the cursor one cell in the configured direction only after the last
\* byte, which is c.
C30_SequentialFlaps ==
    (/\ last.op = "split_flap_write" /\ last.args.a.fs = "Sequential"
     /\ FlapCharsInRange /\ last.args.a.per_char # None
     /\ last.pre.ram_type = "DDRam") =>
        /\ ~fatal
        /\ FlapBytes = FlapRuns(last.args.a.str, last.args.a.max_flip_cnt)
        /\ \A i \in 1..Len(FlapCommands) :
              /\ IsDataWrite(FlapCommands[i]) =>
                    /\ i > 1 /\ FlapCommands[i - 1].cmd.data >= 128
                    /\ (i > 2 /\ IsDataWrite(FlapCommands[i - 2])) =>
                          FlapCommands[i - 1].cmd = FlapCommands[i - 3].cmd
              /\ IsCursorShift(FlapCommands[i]) =>
                    /\ i > 1 /\ IsDataWrite(FlapCommands[i - 1])
                    /\ FlapCommands[i].cmd.data =
                          Encode(CursorOrDisplayShift("CursorOnly", last.pre.direction)).data
        /\ Cardinality({i \in 1..Len(FlapCommands) : IsCursorShift(FlapCommands[i])})
               = Len(last.args.a.str)


\* the cells the call's log shows written with byte b: the addresses of the
\* SetDDRAM commands directly before the writes of b
CellsWritten(b) ==
    {wire[i - 1].cmd.data - 128 :
        i \in {k \in RamWrites : k > 1 /\ wire[k].cmd.data = b}}

\* the scan steps of a Simultaneous call that returned: one wait of the
\* per-flip delay each, the last step being the largest target
ScanBytes ==
    LET top == max_char(last.args.a.str)
        steps == Cardinality({i \in 1..Len(wire) : wire[i].how = "sleep"})
    IN  (top - steps + 1)..top

\* the address of the cell of the char at index i (from 1)
TargetCell(i) ==
    DdramAddr(PastBy(last.pre.line, last.pre.cursor_pos, i - 1, last.pre.direction))

\* a Simultaneous call that returned and whose cells lie on the start line
SimultaneousOnLine ==
    /\ last.op = "split_flap_write" /\ ~fatal
    /\ last.args.a.fs = "Simultaneous"
    /\ \A i \in 1..Len(last.args.a.str) :
          PastBy(last.pre.line, last.pre.cursor_pos, i - 1, last.pre.direction)[2]
              = last.pre.cursor_pos[2]

\* C31 as stated: at the scan step of byte b the cells written with b are
\* exactly those whose target char is <= b.
C31_CellsUpToByte ==
    SimultaneousOnLine =>
        \A b \in ScanBytes :
            CellsWritten(b) = {TargetCell(i) : i \in {k \in 1..Len(last.args.a.str) :
                                                        last.args.a.str[k] <= b}}

\* C31: at the scan step of byte b of a Simultaneous split_flap_write the
\* cells written with b are exactly those whose target char is >= b, each
\* once, so that a cell is written for the last time with its target; no
\* other byte than those of the scan steps is written.
C31_CellsStillToFlip ==
    SimultaneousOnLine =>
        /\ \A b \in ScanBytes :
              /\ CellsWritten(b) = {TargetCell(i) : i \in {k \in 1..Len(last.args.a.str) :
                                                             last.args.a.str[k] >= b}}
              /\ Cardinality({k \in RamWrites : wire[k].cmd.data = b})
                     = Cardinality({k \in 1..Len(last.args.a.str) : last.args.a.str[k] >= b})
        /\ \A k \in RamWrites : wire[k].cmd.data \in ScanBytes

\* "AB" from (0,0), left to right, one flip at most: at 'A' both cells are
\* written, at 'B' only the second
C31_Witness ==
    /\ SimultaneousOnLine
    /\ last.args.a.str = <<65, 66>> /\ last.args.a.max_flip_cnt = Some(1)
    /\ last.pre.cursor_pos = <<0, 0>> /\ last.pre.direction = "LeftToRight"
    /\ CellsWritten(65) = {0, 1} /\ CellsWritten(66) = {1}
    /\ hw.dd[0] = 65 /\ hw.dd[1] = 66


(***************************************************************************)
(* One cursor step as a function of the LcdState: from every in-bounds     *)
(* position of either line mode, a CursorOnly shift in direction d, a      *)
(* write_u8_to_cur with d configured, and a shift to the right followed by *)
(* one to the left.                                                        *)
(***************************************************************************)
StepOffsetInputs == {0, 7}

\* the driver the step starts from
StepStart(line, pos, offset, dir) ==
    [st |-> [LcdState_default EXCEPT !.line = line, !.cursor_pos = pos,
                                     !.display_offset = offset, !.direction = dir],
     wire |-> <<>>, hw |-> HwReset, fatal |-> FALSE, poll |-> poll_interval_us]

InitStep ==
    /\ rev \in Revisions
    /\ phase = "step"
    /\ state = LcdState_default
    /\ wire = <<>>
    /\ hw = HwReset
    /\ fatal = FALSE
    /\ poll = poll_interval_us
    /\ last = [op |-> "none", args |-> Args(NoPos, "-", 0), pre |-> LcdState_default]
    /\ nops = 0
    /\ calc = CalcIdle
    /\ i2c = I2cSender_new
    /\ \E line \in LineModes, dir \in MoveDirections, offset \in StepOffsetInputs :
         \E pos \in CalcPositions(line) :
            run = [op |-> "step", stage |-> "input",
                   from |-> StepStart(line, pos, offset, dir),
                   shifted |-> StepStart(line, pos, offset, dir),
                   written |-> StepStart(line, pos, offset, dir),
                   back |-> StepStart(line, pos, offset, dir)]

\* shift_cursor_or_display(CursorOnly, d)
Step_shift ==
    /\ run.op = "step" /\ run.stage = "input"
    /\ run' = [run EXCEPT !.stage = "shifted",
                          !.shifted = shift_cursor_or_display(
                                          run.from, "CursorOnly", run.from.st.direction)]
    /\ UNCHANGED <<rev, phase, state, wire, hw, fatal, last, nops, calc, i2c, poll>>

\* write_u8_to_cur with d configured, from the same state
Step_write ==
    /\ run.op = "step" /\ run.stage = "shifted"
    /\ \E byte \in ByteInputs :
         run' = [run EXCEPT !.stage = "written",
                            !.written = write_u8_to_cur(run.from, rev, byte)]
    /\ UNCHANGED <<rev, phase, state, wire, hw, fatal, last, nops, calc, i2c, poll>>

\* a LeftToRight shift followed by a RightToLeft one, from the same state
Step_back ==
    /\ run.op = "step" /\ run.stage = "written"
    /\ run' = [run EXCEPT !.stage = "back",
                          !.back = shift_cursor_or_display(
                                       shift_cursor_or_display(
                                           run.from, "CursorOnly", "LeftToRight"),
                                       "CursorOnly", "RightToLeft")]
    /\ UNCHANGED <<rev, phase, state, wire, hw, fatal, last, nops, calc, i2c, poll>>

NextStep ==
    \/ Step_shift
    \/ Step_write
    \/ Step_back

SpecStep == InitStep /\ [][NextStep]_vars

\* C32: from every in-bounds cursor position, in both line modes and both
\* directions d, shift_cursor_or_display(CursorOnly, d) leaves cursor_pos
\* where a write_u8_to_cur with direction d configured leaves it, and leaves
\* display_offset as it was; a LeftToRight shift followed by a RightToLeft
\* one leaves cursor_pos where it was.
C32_ShiftEqualsWriteStep ==
    (run.op = "step") =>
        /\ (run.stage \in {"shifted", "written", "back"}) =>
              /\ ~run.shifted.fatal
              /\ run.shifted.st.display_offset = run.from.st.display_offset
        /\ (run.stage \in {"written", "back"}) =>
              /\ ~run.written.fatal
              /\ run.shifted.st.cursor_pos = run.written.st.cursor_pos
        /\ (run.stage = "back") =>
              /\ ~run.back.fatal
              /\ run.back.st.cursor_pos = run.from.st.cursor_pos


(***************************************************************************)
(* The window shift as a function of the LcdState: from every offset of    *)
(* either line mode, in either RAM space, line_capacity shifts of cursor   *)
(* and display in one direction, one after the other.                      *)
(***************************************************************************)
WindowCursorInputs == {<<0, 0>>, <<5, 0>>}

\* the driver the shifts start from
WindowStart(line, offset, pos, ram_type) ==
    [st |-> [LcdState_default EXCEPT !.line = line, !.display_offset = offset,
                                     !.cursor_pos = pos, !.ram_type = ram_type],
     wire |-> <<>>, hw |-> HwReset, fatal |-> FALSE, poll |-> poll_interval_us]

InitWindow ==
    /\ rev = "lcd"
    /\ phase = "window"
    /\ state = LcdState_default
    /\ wire = <<>>
    /\ hw = HwReset
    /\ fatal = FALSE
    /\ poll = poll_interval_us
    /\ last = [op |-> "none", args |-> Args(NoPos, "-", 0), pre |-> LcdState_default]
    /\ nops = 0
    /\ calc = CalcIdle
    /\ i2c = I2cSender_new
    /\ \E line \in LineModes, dir \in MoveDirections, ram_type \in RAMTypes,
          pos \in WindowCursorInputs :
         \E offset \in 0..(LineCapacityOf(line) - 1) :
            run = [op |-> "window", dir |-> dir, n |-> 0,
                   from |-> WindowStart(line, offset, pos, ram_type),
                   cur |-> WindowStart(line, offset, pos, ram_type)]

\* shift_cursor_or_display(CursorAndDisplay, dir), once more
Window_shift ==
    /\ run.op = "window" /\ ~run.cur.fatal
    /\ run.n < get_line_capacity(run.from.st)
    /\ run' = [run EXCEPT !.n = @ + 1,
                          !.cur = shift_cursor_or_display(
                                      [run.cur EXCEPT !.wire = <<>>],
                                      "CursorAndDisplay", run.dir)]
    /\ UNCHANGED <<rev, phase, state, wire, hw, fatal, last, nops, calc, i2c, poll>>

NextWindow == Window_shift

SpecWindow == InitWindow /\ [][NextWindow]_vars

\* C33: shift_cursor_or_display(CursorAndDisplay, d), when it returns, has
\* set display_offset to (offset + 1) mod line_capacity for LeftToRight and
\* to (offset - 1) mod line_capacity for RightToLeft, has left cursor_pos,
\* ram_type and every configuration flag as they were and has sent the one
\* shift command; after line_capacity shifts in one direction display_offset
\* is what it was at the start.  From DDRam every one of them returns.
C33_WindowShift ==
    (run.op = "window") =>
        LET cap == get_line_capacity(run.from.st)
            by == IF run.dir = "LeftToRight" THEN run.n ELSE -run.n
        IN  /\ (~run.cur.fatal) =>
                  /\ run.cur.st = [run.from.st EXCEPT
                                      !.display_offset = (@ + by) % cap]
                  /\ (run.n = cap) =>
                        run.cur.st.display_offset = run.from.st.display_offset
                  /\ (run.n > 0) =>
                        [i \in 1..Len(run.cur.wire) |-> run.cur.wire[i].cmd] =
                            <<Encode(CursorOrDisplayShift("CursorAndDisplay", run.dir))>>
            /\ (run.from.st.ram_type = "DDRam") => ~run.cur.fatal

\* forty shifts to the left from offset 0 of a two-line display: back at 0
C33_Witness ==
    /\ run.op = "window" /\ ~run.cur.fatal
    /\ run.from.st.line = "TwoLine" /\ run.dir = "RightToLeft"
    /\ run.from.st.display_offset = 0
    /\ run.n = 40
    /\ run.cur.st.display_offset = 0


\* C37: shift_cursor_or_display(CursorAndDisplay, d) returns and moves
\* display_offset by one column, with the wrap, in the same way whether
\* ram_type is DDRam or CGRam.
C37_WindowShiftAnyRam ==
    (run.op = "window" /\ run.n > 0) =>
        /\ ~run.cur.fatal
        /\ run.cur.st.display_offset =
               (run.from.st.display_offset
                  + (IF run.dir = "LeftToRight" THEN run.n ELSE -run.n))
               % get_line_capacity(run.from.st)
        /\ run.cur.st.ram_type = run.from.st.ram_type


(***************************************************************************)
(* The parallel transport, pin by pin.  A sender is the levels of its pins  *)
(* and the trace of what send did to them, oldest first: a level written    *)
(* to a control pin, a value put on the data pins (push_bits), a value      *)
(* sampled from them (fetch_bits).                                          *)
(***************************************************************************)
PinEvent(pin, v) == [pin |-> pin, v |-> v]

ParallelSender_new(pin_cnt, en, db) ==
    [pin_cnt |-> pin_cnt, en |-> en, rs |-> 0, rw |-> 0, db |-> db % Pow2(pin_cnt),
     trace |-> <<>>, ret |-> None, fatal |-> FALSE, n |-> 0, cmd |-> NoCommand,
     sampled |-> <<0, 0>>]

set_pin(P, pin, v) == [P EXCEPT ![pin] = v, !.trace = Append(@, PinEvent(pin, v))]

\* push_bits: data pin i takes bit i of raw_bits, for the pins there are
push_bits(P, raw_bits) ==
    [P EXCEPT !.db = raw_bits % Pow2(P.pin_cnt),
              !.trace = Append(@, PinEvent("db", raw_bits % Pow2(P.pin_cnt)))]

\* fetch_bits: every data pin is released high, then read; bit i is set
\* when pin i is not low.  levels is what the controller drives.
fetch_bits(P, levels) ==
    [P EXCEPT !.db = levels % Pow2(P.pin_cnt),
              !.ret = Some(levels % Pow2(P.pin_cnt)),
              !.trace = Append(@, PinEvent("in", levels % Pow2(P.pin_cnt)))]

pulse(P) == set_pin(set_pin(P, "en", 1), "en", 0)

send_control(P, command) ==
    set_pin(set_pin(set_pin(P, "en", 0),
                    "rs", IF command.rs = "Command" THEN 0 ELSE 1),
            "rw", IF command.rw = "Write" THEN 0 ELSE 1)

\* a plausible slip: the low nibble goes out first
ParallelSender_send_mut(P, command, in1, in2) ==
    IF ~(P.pin_cnt = 4 \/ P.pin_cnt = 8) THEN [P EXCEPT !.fatal = TRUE]
    ELSE IF command.rw = "Write"
    THEN IF command.bits = 0 THEN [send_control(P, command) EXCEPT !.fatal = TRUE]
         ELSE IF P.pin_cnt = 4
         THEN IF command.bits = 4
              THEN IF ~(command.data < 16)
                   THEN [send_control(P, command) EXCEPT !.fatal = TRUE]
                   ELSE [pulse(push_bits(send_control(P, command), command.data))
                            EXCEPT !.ret = None]
              ELSE [pulse(push_bits(pulse(push_bits(send_control(P, command),
                                                    command.data % 16)),
                                    command.data \div 16))
                       EXCEPT !.ret = None]
         ELSE IF command.bits = 8
              THEN [pulse(push_bits(send_control(P, command), command.data))
                       EXCEPT !.ret = None]
              ELSE [send_control(P, command) EXCEPT !.fatal = TRUE]
    ELSE IF P.pin_cnt = 4
    THEN [set_pin(fetch_bits(set_pin(set_pin(fetch_bits(
                      set_pin(send_control(P, command), "en", 1), in1), "en", 0),
                      "en", 1), in2), "en", 0)
             EXCEPT !.ret = Some(((in1 % 16) * 16) + (in2 % 16))]
    ELSE set_pin(fetch_bits(set_pin(send_control(P, command), "en", 1), in1), "en", 0)

\* ParallelSender::send; in1 and in2 are the levels the controller drives
\* at the first and the second sampling
ParallelSender_send(P, command, in1, in2) ==
    IF ~(P.pin_cnt = 4 \/ P.pin_cnt = 8) THEN [P EXCEPT !.fatal = TRUE]
    ELSE IF command.rw = "Write"
    THEN IF command.bits = 0 THEN [send_control(P, command) EXCEPT !.fatal = TRUE]
         ELSE IF P.pin_cnt = 4
         THEN IF command.bits = 4
              THEN IF ~(command.data < 16)
                   THEN [send_control(P, command) EXCEPT !.fatal = TRUE]
                   ELSE [pulse(push_bits(send_control(P, command), command.data))
                            EXCEPT !.ret = None]
              ELSE [pulse(push_bits(pulse(push_bits(send_control(P, command),
                                                    command.data \div 16)),
                                    command.data % 16))
                       EXCEPT !.ret = None]
         ELSE IF command.bits = 8
              THEN [pulse(push_bits(send_control(P, command), command.data))
                       EXCEPT !.ret = None]
              ELSE [send_control(P, command) EXCEPT !.fatal = TRUE]
    ELSE IF P.pin_cnt = 4
    THEN [set_pin(fetch_bits(set_pin(set_pin(fetch_bits(
                      set_pin(send_control(P, command), "en", 1), in1), "en", 0),
                      "en", 1), in2), "en", 0)
             EXCEPT !.ret = Some(((in1 % 16) * 16) + (in2 % 16))]
    ELSE set_pin(fetch_bits(set_pin(send_control(P, command), "en", 1), in1), "en", 0)

PinCounts == {4, 8}

ParallelCommandInputs ==
    {Encode(HalfFunctionSet), Command("Data", "Write", 4, 2),
     Command("Command", "Write", 4, 19),
     Encode(FunctionSet("Bit4", "TwoLine", "Font5x8")),
     Encode(FunctionSet("Bit8", "TwoLine", "Font5x8")),
     Encode(ClearDisplay), Encode(SetDDRAM(75)), Encode(WriteDataToRAM(65)),
     Encode(WriteDataToRAM(233)), Encode(ReadBusyFlagAndAddress),
     Encode(ReadDataFromRAM)}

PinLevelInputs == {0, 9, 15, 164}

InitPins ==
    /\ rev = "lcd"
    /\ phase = "pins"
    /\ state = LcdState_default
    /\ wire = <<>>
    /\ hw = HwReset
    /\ fatal = FALSE
    /\ poll = poll_interval_us
    /\ last = [op |-> "none", args |-> Args(NoPos, "-", 0), pre |-> LcdState_default]
    /\ nops = 0
    /\ calc = CalcIdle
    /\ i2c = I2cSender_new
    /\ \E pin_cnt \in PinCounts, en \in {0, 1}, db \in PinLevelInputs :
         run = [op |-> "pins", p |-> ParallelSender_new(pin_cnt, en, db)]

\* one send on the parallel transport; the trace is that of this send
Pins_send ==
    /\ run.op = "pins" /\ ~run.p.fatal /\ run.p.n < MaxSends
    /\ \E command \in ParallelCommandInputs, in1 \in PinLevelInputs, in2 \in PinLevelInputs :
         /\ (command.rw = "Write") => (in1 = 0 /\ in2 = 0)
         /\ (run.p.pin_cnt = 8) => in2 = 0
         /\ run' = [run EXCEPT !.p =
                       [ParallelSender_send([run.p EXCEPT !.trace = <<>>], command, in1, in2)
                           EXCEPT !.n = run.p.n + 1, !.cmd = command,
                                  !.sampled = <<in1, in2>>]]
    /\ UNCHANGED <<rev, phase, state, wire, hw, fatal, last, nops, calc, i2c, poll>>

NextPins == Pins_send

SpecPins == InitPins /\ [][NextPins]_vars

\* the positions in the trace of the events on one pin, and their values
EventsAt(trace, pin) == {k \in 1..Len(trace) : trace[k].pin = pin}

RECURSIVE EventValues(_, _, _)
EventValues(trace, pin, k) ==
    IF k > Len(trace) THEN <<>>
    ELSE IF trace[k].pin = pin THEN <<trace[k].v>> \o EventValues(trace, pin, k + 1)
    ELSE EventValues(trace, pin, k + 1)

\* the enable line goes high at k and low again at the next event but for
\* the sampling in between
PulseAt(trace, k) ==
    /\ trace[k] = PinEvent("en", 1)
    /\ \/ (k + 1 <= Len(trace) /\ trace[k + 1] = PinEvent("en", 0))
       \/ (k + 2 <= Len(trace) /\ trace[k + 1].pin = "in"
           /\ trace[k + 2] = PinEvent("en", 0))

Pulses(trace) == {k \in 1..Len(trace) : trace[k] = PinEvent("en", 1)}

\* C34: on the 4-pin parallel transport every send starts and ends with
\* the enable line low; an 8-bit write payload goes on the data lines as
\* the high nibble and then the low nibble, each followed by exactly one
\* enable high-then-low pulse after the data lines were set; a 4-bit
\* payload produces exactly one pulse; a read returns
\* (first sampled nibble << 4) + second sampled nibble; on the 8-pin
\* transport each command produces exactly one pulse.
C34_ParallelPulses ==
    (run.op = "pins" /\ run.p.n > 0) =>
        /\ run.p.trace[1] = PinEvent("en", 0)
        /\ run.p.en = 0
        /\ ~run.p.fatal =>
            /\ run.p.trace[Len(run.p.trace)] = PinEvent("en", 0)
            /\ \A k \in Pulses(run.p.trace) : PulseAt(run.p.trace, k)
            /\ \A k \in EventsAt(run.p.trace, "en") :
                  run.p.trace[k].v = 0 => (k = 1 \/ (k > 2 /\ PulseAt(run.p.trace, k - 1))
                                                 \/ (k > 3 /\ PulseAt(run.p.trace, k - 2)))
            /\ \A k \in EventsAt(run.p.trace, "db") : k + 1 \in Pulses(run.p.trace)
            /\ (run.p.cmd.rw = "Write") =>
                  /\ Cardinality(Pulses(run.p.trace)) =
                        Cardinality(EventsAt(run.p.trace, "db"))
                  /\ run.p.ret = None
            /\ (run.p.pin_cnt = 4 /\ run.p.cmd.rw = "Write" /\ run.p.cmd.bits = 8) =>
                  EventValues(run.p.trace, "db", 1) =
                     <<run.p.cmd.data \div 16, run.p.cmd.data % 16>>
            /\ (run.p.pin_cnt = 4 /\ run.p.cmd.rw = "Write" /\ run.p.cmd.bits = 4) =>
                  /\ EventValues(run.p.trace, "db", 1) = <<run.p.cmd.data>>
                  /\ Cardinality(Pulses(run.p.trace)) = 1
            /\ (run.p.pin_cnt = 4 /\ run.p.cmd.rw = "Read") =>
                  /\ Len(EventValues(run.p.trace, "in", 1)) = 2
                  /\ Cardinality(Pulses(run.p.trace)) = 2
                  /\ run.p.ret = Some((EventValues(run.p.trace, "in", 1)[1] * 16)
                                      + EventValues(run.p.trace, "in", 1)[2])
                  /\ EventValues(run.p.trace, "in", 1) =
                        <<run.p.sampled[1] % 16, run.p.sampled[2] % 16>>
            /\ (run.p.pin_cnt = 8) =>
                  /\ Cardinality(Pulses(run.p.trace)) = 1
                  /\ (run.p.cmd.rw = "Write") =>
                        EventValues(run.p.trace, "db", 1) = <<run.p.cmd.data>>
                  /\ (run.p.cmd.rw = "Read") => run.p.ret = Some(run.p.sampled[1])

\* SetDDRAM(75) on four pins: 1100 then 1011, a pulse after each
C34_Witness ==
    /\ run.op = "pins" /\ run.p.pin_cnt = 4 /\ ~run.p.fatal
    /\ run.p.cmd = Encode(SetDDRAM(75))
    /\ run.p.trace =
          <<PinEvent("en", 0), PinEvent("rs", 0), PinEvent("rw", 0),
            PinEvent("db", 12), PinEvent("en", 1), PinEvent("en", 0),
            PinEvent("db", 11), PinEvent("en", 1), PinEvent("en", 0)>>

\* a busy-flag read on four pins that sampled 1001 and then 1111
C34_WitnessRead ==
    /\ run.op = "pins" /\ run.p.pin_cnt = 4 /\ ~run.p.fatal
    /\ run.p.cmd = Encode(ReadBusyFlagAndAddress)
    /\ run.p.sampled = <<9, 15>> /\ run.p.ret = Some(159)


\* the bytes of the bus write of the last send
LastBusBytes == i2c.bus[Len(i2c.bus)].bytes

\* three bridge bytes that carry one nibble of a write of register rs:
\* disable, enable, disable
NibbleGroup(b, nibble, rs) ==
    /\ Len(b) = 3
    /\ b[1] = b[3]
    /\ ~check_bit(b[1], 2) /\ check_bit(b[2], 2)
    /\ b[2] = b[1] + 4
    /\ \A k \in 1..3 :
          /\ b[k] \div 16 = nibble
          /\ check_bit(b[k], 0) <=> (rs = "Data")
          /\ ~check_bit(b[k], 1)

\* C35: on the I2C transport every nibble of a write goes out as three
\* bridge bytes, disable, enable, disable, identical except for bit 2
\* (0, 1, 0), with the nibble in bits 7..4, bit 0 set exactly for
\* data-register commands and bit 1 clear; an 8-bit payload is the three
\* bytes of the high nibble, then the three of the low nibble; the first
\* (4-bit) command is three bytes only.
C35_I2cNibbleBytes ==
    (i2c.n > 0 /\ ~i2c.fatal /\ i2c.cmd.rw = "Write") =>
        /\ i2c.bus # <<>>
        /\ i2c.bus[Len(i2c.bus)].op = "write"
        /\ i2c.was_first =>
              /\ i2c.cmd.bits = 4 /\ Len(i2c.bus) = 1
              /\ NibbleGroup(LastBusBytes, i2c.cmd.data, i2c.cmd.rs)
        /\ ~i2c.was_first =>
              /\ i2c.cmd.bits = 8 /\ Len(LastBusBytes) = 6
              /\ NibbleGroup(SubSeq(LastBusBytes, 1, 3), i2c.cmd.data \div 16, i2c.cmd.rs)
              /\ NibbleGroup(SubSeq(LastBusBytes, 4, 6), i2c.cmd.data % 16, i2c.cmd.rs)

\* the letter A written to RAM after the half command: 0100 then 0001,
\* register-select set
C35_Witness ==
    /\ i2c.n = 2 /\ ~i2c.fatal /\ i2c.cmd = Encode(WriteDataToRAM(65))
    /\ Len(i2c.bus) = 2
    /\ i2c.bus[1].bytes = <<40, 44, 40>>
    /\ LastBusBytes = <<73, 77, 73, 25, 29, 25>>


(***************************************************************************)
(* The backlight on the I2C transport: set_backlight writes to the bridge  *)
(* between sends.  run remembers the state last set, the state last read   *)
(* (got) and whether the Lcd still exists (Lcd::get_backlight takes self). *)
(***************************************************************************)
\* I2cSender::set_backlight
I2cSender_set_backlight(S, backlight) ==
    LET disabled_command == IF backlight = "On" THEN set_bit(242, 3) ELSE 242
    IN  I2cWrite(S, <<disabled_command, set_bit(disabled_command, 2), disabled_command>>)

\* I2cSender::get_backlight: one read of the bridge, byte being what it
\* answers
I2cSender_get_backlight(S, byte) ==
    [S |-> [S EXCEPT !.bus = Append(@, [op |-> "read", bytes |-> <<>>])],
     ret |-> IF check_bit(byte, 3) THEN "On" ELSE "Off"]

\* what the bridge may answer: backlight bit clear, backlight bit set
BridgeByteInputs == {242, 250}

InitBacklight ==
    /\ rev = "lcd"
    /\ phase = "backlight"
    /\ state = LcdState_default
    /\ wire = <<>>
    /\ hw = HwReset
    /\ fatal = FALSE
    /\ poll = poll_interval_us
    /\ last = [op |-> "none", args |-> Args(NoPos, "-", 0), pre |-> LcdState_default]
    /\ nops = 0
    /\ calc = CalcIdle
    /\ i2c = I2cSender_new
    /\ run = [op |-> "backlight", set |-> FALSE, bl |-> "Off", k |-> 0,
              got |-> "Off", lcd |-> TRUE]

\* Lcd::set_backlight on an I2C sender: the sender writes to the bridge and
\* the LcdState keeps the value
Backlight_set ==
    /\ run.op = "backlight" /\ run.lcd /\ ~i2c.fatal /\ run.k < MaxSends
    /\ \E backlight \in States :
         /\ i2c' = I2cSender_set_backlight(i2c, backlight)
         /\ state' = [state EXCEPT !.backlight = backlight]
         /\ run' = [run EXCEPT !.set = TRUE, !.bl = backlight, !.k = @ + 1]
    /\ UNCHANGED <<rev, phase, wire, hw, fatal, last, nops, calc, poll>>

\* Lcd::get_backlight: the value kept in the LcdState; the call consumes
\* the Lcd
Backlight_get ==
    /\ run.op = "backlight" /\ run.lcd /\ ~i2c.fatal
    /\ run' = [run EXCEPT !.got = state.backlight, !.lcd = FALSE]
    /\ UNCHANGED <<rev, phase, state, wire, hw, fatal, last, nops, calc, i2c, poll>>

\* I2cSender::get_backlight, called on the sender
Sender_get_backlight ==
    /\ run.op = "backlight" /\ ~i2c.fatal /\ run.k < MaxSends
    /\ \E byte \in BridgeByteInputs :
         /\ i2c' = I2cSender_get_backlight(i2c, byte).S
         /\ run' = [run EXCEPT !.got = I2cSender_get_backlight(i2c, byte).ret,
                               !.k = @ + 1]
    /\ UNCHANGED <<rev, phase, state, wire, hw, fatal, last, nops, calc, poll>>

NextBacklight == Backlight_set \/ Backlight_get \/ Sender_get_backlight \/ I2c_send

SpecBacklight == InitBacklight /\ [][NextBacklight]_vars

\* C39: on the I2C transport the backlight bit, bit 3 of every byte written
\* to the bridge, always equals the backlight state last set.
C39_BacklightBit ==
    (run.op = "backlight" /\ run.set /\ i2c.bus # <<>>) =>
        \A k \in 1..Len(LastBusBytes) :
            check_bit(LastBusBytes[k], 3) <=> (run.bl = "On")


(***************************************************************************)
(* clean_display and return_home, among the calls that move the cursor,    *)
(* the window and the RAM space away from their reset values.               *)
(***************************************************************************)
\* Lcd::clean_display
clean_display(M) == IF M.fatal THEN M ELSE wait_and_send(M, ClearDisplay)

\* Lcd::return_home
return_home(M) == IF M.fatal THEN M ELSE wait_and_send(M, ReturnHome)

Clean_display == LcdCall("clean_display", Args(NoPos, "-", 0), clean_display(Start))

Return_home == LcdCall("return_home", Args(NoPos, "-", 0), return_home(Start))

NextHome ==
    \/ Config_set_line_mode
    \/ New
    \/ Set_cursor_pos
    \/ Set_cgram_addr
    \/ Shift_cursor_or_display
    \/ Clean_display
    \/ Return_home

SpecHome == Init /\ [][NextHome]_vars

\* C38: after clean_display or return_home the driver's cursor_pos is
\* (0,0), its display_offset is 0 and its ram_type is DDRAM.
C38_HomeState ==
    (last.op \in {"clean_display", "return_home"} /\ ~fatal) =>
        /\ state.cursor_pos = <<0, 0>>
        /\ state.display_offset = 0
        /\ state.ram_type = "DDRam"

\* what the two calls do: the one command goes out, the controller homes,
\* and the LcdState stays as it was
C38_HomeLeavesState ==
    (last.op \in {"clean_display", "return_home"} /\ ~fatal) =>
        /\ state = last.pre
        /\ Len(wire) = 1
        /\ hw.ac = 0 /\ hw.shift = 0 /\ hw.ram = "DDRam"


\* C40: for an in-bounds column x and a permitted column offset dx
\* (|dx| < line_capacity), in both line modes, the sum x + dx computed by
\* calculate_pos_by_offset stays within the signed 8-bit range, so the
\* computation never overflows; in one-line mode the result is
\* (x + dx) mod 80.
C40_ColumnSumFitsI8 ==
    (calc.stage = "forward" /\ offset_ok(calc.line, calc.off, calc.checks)) =>
        /\ ~i8_overflows(raw_x_sum(calc.pos, calc.off))
        /\ calc.ok
        /\ (calc.line = "OneLine") =>
              calc.q = <<(calc.pos[1] + calc.off[1]) % 80, 0>>

\* the part that does hold: with 40 columns the sum is at most 78
C40_TwoLineSumFitsI8 ==
    (calc.stage = "forward" /\ calc.line = "TwoLine" /\ offset_ok(calc.line, calc.off, calc.checks)) =>
        (~i8_overflows(raw_x_sum(calc.pos, calc.off)) /\ calc.ok)

\* one-line mode, column 79 moved by 79: the sum is 158; a build with
\* overflow checks panics, one without returns column 238
C40_OverflowReached ==
    /\ calc.stage = "forward" /\ calc.line = "OneLine"
    /\ calc.pos = <<79, 0>> /\ calc.off = <<79, 0>>
    /\ i8_overflows(raw_x_sum(calc.pos, calc.off))
    /\ IF calc.checks THEN ~calc.ok ELSE calc.ok /\ calc.q = <<238, 0>>


\* C36: when a call on the driver ends in a fatal precondition failure (an
\* out-of-range position, offset or index, the wrong RAM space, an invalid
\* font and line combination, a split-flap char out of range, a missing
\* Sequential per-char delay), the failure comes before the call has sent
\* any command and before it has changed any field of the LcdState.
C36_FailsBeforeEffects ==
    (phase = "ready" /\ fatal /\ last.op # "new") =>
        (wire = <<>> /\ state = last.pre)

\* the same for the missing per-char delay of a Sequential split_flap_write
C36_FlapDelayFailsBeforeEffects ==
    (/\ last.op = "split_flap_write" /\ fatal /\ FlapCharsInRange
     /\ last.args.a.fs = "Sequential" /\ last.args.a.per_char = None) =>
        (wire = <<>> /\ state = last.pre)

\* the calls whose first statement is not their check
C36_FailsAfterEffects ==
    (phase = "ready" /\ fatal /\ ~(wire = <<>> /\ state = last.pre)) =>
        /\ last.op \in DdramAddressingCalls
        /\ last.pre.ram_type = "CGRam"
        /\ wire = <<>>
        /\ state = [last.pre EXCEPT !.ram_type = "DDRam"]

====
